---- MODULE Spec2Model ----
(***************************************************************************)
(* Model of the AI test-generation flow of level-3-agent-code.             *)
(*                                                                         *)
(* The flow controller is runFlow (src/lib/agents/flow-runner.ts) with its *)
(* collaborators: buildPRContext / buildTestContext (pr-context.ts),       *)
(* handleReviewAgent (code-review.ts), gatingStep (test-gating.ts),        *)
(* handleTestGeneration / generateTestsForChanges / finalizeTestProposals  *)
(* / commitTests (test-proposals.ts, src/unnamed/part_004), handleTestFix  *)
(* (test-fix.ts), runLocalTests and the entry point's catch handler        *)
(* (src/unnamed/part_000).                                                 *)
(*                                                                         *)
(* Texts (comment bodies, recommendations) are sequences of tokens; a      *)
(* string concatenation in the source is a sequence concatenation here.    *)
(***************************************************************************)
EXTENDS Integers, Sequences, FiniteSets, TLC

VARIABLES
    pc,             \* position of runFlow
    env,            \* process environment / triggering event
    prFiles,        \* what pulls.listFiles and the per-file content fetch return
    branch,         \* the PR branch in the content store: path -> content
    baseContext,    \* const baseContext (PullRequestContext)
    testContext,    \* const testContext (PullRequestContextWithTests)
    reviewAnalysis, \* const reviewAnalysis
    gating,         \* const gating (result of gatingStep)
    gateModel,      \* what happened inside the Gate's model call
    testBody,       \* let testBody of runFlow
    hBody,          \* parameter testBody of handleTestGeneration
    hReview,        \* parameter reviewAnalysis of handleTestGeneration
    caller,         \* the caller of the running handleTestGeneration
    proposals,      \* const proposals of handleTestGeneration
    lastGen,        \* arguments of the latest generateTestsForChanges call
    testResult,     \* let testResult of runFlow
    lastExec,       \* what the latest execSync of the test command did
    iteration,      \* let iteration of runFlow
    comments,       \* the comment channel: the two comments' current bodies
    pushes,         \* the last two bodies pushed to the test-flow comment
    log,            \* history of generator calls, commits and test runs
    thrown,         \* which call threw the error that is propagating
    exitCode,       \* process exit status
    outcome,        \* terminal outcome of the invocation
    commit,         \* position and locals of a running commitTests call
    call            \* a component called on its own: its input and its outcome

vars == <<pc, env, prFiles, branch, baseContext, testContext, reviewAnalysis,
          gating, gateModel, testBody, hBody, hReview, caller, proposals,
          lastGen, testResult, lastExec, iteration, comments, pushes, log, thrown,
          exitCode, outcome, commit, call>>

(***************************************************************************)
(* Bounds of the model.                                                    *)
(***************************************************************************)
MaxProposals == 1
MaxChangedFiles == 1

(***************************************************************************)
(* Program constants.                                                      *)
(***************************************************************************)
maxIterations == 3
MaxContentLength == 32000

None == "<none>"
Absent == "<absent>"

\* a path at which getContent answers with a directory listing
Dir == "<dir>"

(***************************************************************************)
(* Texts.                                                                  *)
(***************************************************************************)
Tok(t, n, s) == [t |-> t, n |-> n, s |-> s]

Contains(text, tok) == \E i \in 1..Len(text) : text[i] = tok

IsPrefix(a, b) == Len(a) <= Len(b) /\ SubSeq(b, 1, Len(a)) = a

RECURSIVE FileLines(_)
FileLines(ps) ==
    IF ps = <<>> THEN <<>>
    ELSE <<Tok("file", 0, Head(ps).filename)>> \o FileLines(Tail(ps))

(***************************************************************************)
(* File names.  Each name is given with the result of the string tests the *)
(* source applies to it.                                                   *)
(***************************************************************************)
TestFileNames ==
    {"a.test.ts", "a.test.tsx",
     "__tests__/unit/a.test.ts", "__tests__/unit/a.test.tsx"}

endsWithTestTs(f) == f \in {"a.test.ts", "__tests__/unit/a.test.ts"}

endsWithTestTsx(f) == f \in {"a.test.tsx", "__tests__/unit/a.test.tsx"}

includesTestsUnit(f) ==
    f \in {"__tests__/unit/a.test.ts", "__tests__/unit/a.test.tsx",
           "__tests__/unit/a.spec.ts", "__tests__/unit/"}

\* newFilename.replace(/\.test\.ts$/, ".test.tsx")
replaceTsByTsx(f) ==
    CASE f = "a.test.ts" -> "a.test.tsx"
      [] f = "__tests__/unit/a.test.ts" -> "__tests__/unit/a.test.tsx"
      [] OTHER -> f

\* newFilename.replace(/\.test\.tsx$/, ".test.ts")
replaceTsxByTs(f) ==
    CASE f = "a.test.tsx" -> "a.test.ts"
      [] f = "__tests__/unit/a.test.tsx" -> "__tests__/unit/a.test.ts"
      [] OTHER -> f

\* `__tests__/unit/${newFilename}`
prefixTestsUnit(f) ==
    CASE f = "a.test.ts" -> "__tests__/unit/a.test.ts"
      [] f = "a.test.tsx" -> "__tests__/unit/a.test.tsx"
      [] f = "a.spec.ts" -> "__tests__/unit/a.spec.ts"
      [] f = "" -> "__tests__/unit/"
      [] OTHER -> f

\* paths below the "__tests__" directory that getAllTestFiles lists
underTestRoot(f) ==
    f \in {"__tests__/unit/a.test.ts", "__tests__/unit/a.test.tsx"}

(***************************************************************************)
(* Changed source files and their contents.                                *)
(***************************************************************************)
SourceFileNames ==
    {"lib/util.ts", "components/Box.tsx", "app/page.ts", "package-lock.json",
     "web/yarn.lock", "__tests__/unit/a.test.ts"}

endsWithTsx(f) == f = "components/Box.tsx"

includesAppDir(f) == f = "app/page.ts"

SourceContents == {"", "plain", "react", "huge"}

ContentLength(c) ==
    CASE c = "" -> 0
      [] c = "huge" -> MaxContentLength + 1
      [] OTHER -> 5

includesReactImport(c) == c = "react"

TestContents == {"c1", "c2"}

(***************************************************************************)
(* Context Builder (pr-context.ts).                                        *)
(***************************************************************************)
\* filename.endsWith(pattern) for one of "package-lock.json", "yarn.lock",
\* "pnpm-lock.yaml"
endsWithExcludePattern(filename) ==
    filename \in {"package-lock.json", "web/yarn.lock"}

\* no file name is on the denylist
shouldExcludeFile_never(filename) == FALSE

shouldExcludeFile(filename) == endsWithExcludePattern(filename)

\* What the content store answers to getContent for a changed file.
FetchResults ==
    [kind : {"file"}, content : SourceContents]
        \cup {[kind |-> "dir", content |-> ""],
              [kind |-> "notFound", content |-> ""],
              [kind |-> "error", content |-> ""]}

\* getFileContent: the fetched text, None for undefined; a throw is FetchThrows
getFileContent(fetch) ==
    IF fetch.kind = "file" THEN fetch.content ELSE None

\* the catch block returns undefined for every error
FetchThrows_never(fetch) == FALSE

FetchThrows(fetch) == fetch.kind = "error"

PRFile == [filename : SourceFileNames, status : {"added", "removed"},
           fetch : FetchResults]

\* the body of the loop over filesRes.data in buildPRContext
ChangedFileOf(file) ==
    IF file.status # "removed" /\ ~shouldExcludeFile(file.filename)
    THEN LET content == getFileContent(file.fetch)
         IN IF content # None /\ content # ""
               /\ ContentLength(content) <= MaxContentLength
            THEN [filename |-> file.filename, status |-> file.status,
                  content |-> content, excluded |-> FALSE]
            ELSE [filename |-> file.filename, status |-> file.status,
                  content |-> None, excluded |-> TRUE]
    ELSE [filename |-> file.filename, status |-> file.status,
          content |-> None, excluded |-> TRUE]

\* the content fetch is made only for files that pass the first test
FetchAttempted(file) ==
    file.status # "removed" /\ ~shouldExcludeFile(file.filename)

buildPRContextThrows(files) ==
    \E i \in 1..Len(files) : FetchAttempted(files[i]) /\ FetchThrows(files[i].fetch)

buildPRContext(files) ==
    [changedFiles |-> [i \in 1..Len(files) |-> ChangedFileOf(files[i])]]

\* getAllTestFiles: the files below the test root whose content is non-empty
getAllTestFiles(b) ==
    [f \in TestFileNames |->
        IF underTestRoot(f) /\ b[f] \notin {Absent, Dir, ""} THEN b[f]
        ELSE Absent]

(***************************************************************************)
(* Review Producer (code-review.ts) and Gate (test-gating.ts).             *)
(***************************************************************************)
ModelThrows == [kind |-> "throws"]

ReviewModelResults == {ModelThrows, [kind |-> "object", summary |-> "s1"]}

generateReview(res) ==
    IF res.kind = "object" THEN [defined |-> TRUE, summary |-> res.summary]
    ELSE [defined |-> TRUE, summary |-> "Review parse error"]

GateModelResults ==
    {ModelThrows} \cup
    [kind : {"object"}, shouldGenerateTests : BOOLEAN,
     reasoning : {"r1"}, recommendation : {"rec1"}]

\* the catch block fails open
gatingStepLogic_failOpen(res) ==
    IF res.kind = "object"
    THEN [shouldGenerate |-> res.shouldGenerateTests,
          reason |-> res.reasoning,
          recommendation |-> res.recommendation]
    ELSE [shouldGenerate |-> TRUE, reason |-> "Gating error",
          recommendation |-> ""]

gatingStepLogic(res) ==
    IF res.kind = "object"
    THEN [shouldGenerate |-> res.shouldGenerateTests,
          reason |-> res.reasoning,
          recommendation |-> res.recommendation]
    ELSE [shouldGenerate |-> FALSE, reason |-> "Gating error",
          recommendation |-> ""]

(***************************************************************************)
(* Proposal Generator (test-proposals.ts).                                 *)
(***************************************************************************)
isReact(changedFiles) ==
    \E i \in 1..Len(changedFiles) :
        LET file == changedFiles[i]
        IN /\ file.content # None
           /\ file.content # ""
           /\ \/ endsWithTsx(file.filename)
              \/ includesReactImport(file.content)
              \/ includesAppDir(file.filename)

finalizeFilename(filename, react) ==
    LET n1 == IF react /\ ~endsWithTestTsx(filename)
                  THEN replaceTsByTsx(filename)
              ELSE IF ~react /\ ~endsWithTestTs(filename)
                  THEN replaceTsxByTs(filename)
              ELSE filename
    IN IF ~includesTestsUnit(n1) THEN prefixTestsUnit(n1) ELSE n1

finalizeTestProposals(rawProposals, changedFiles) ==
    [i \in 1..Len(rawProposals) |->
        [rawProposals[i] EXCEPT
            !.filename = finalizeFilename(@, isReact(changedFiles))]]

\* the proposals the model can return: action and oldFilename as the schema
\* requires; oldFilename is "" when the model has nothing to rename
RawProposal ==
    [filename : TestFileNames, testContent : TestContents,
     action : {"create", "update"}, oldFilename : {""}]
    \cup
    [filename : TestFileNames, testContent : TestContents,
     action : {"rename"},
     oldFilename : {"__tests__/unit/a.test.ts", "__tests__/unit/a.test.tsx"}]

RECURSIVE SeqsUpTo(_, _)
SeqsUpTo(S, n) ==
    IF n = 0 THEN {<<>>}
    ELSE LET shorter == SeqsUpTo(S, n - 1)
         IN shorter \cup {Append(q, x) : q \in shorter, x \in S}

\* the proposals the model returns in the flow: a name that finalizing
\* completes, content the branch does not hold yet, a new file or a rename
\* of the test file the branch may hold
FlowProposal ==
    {p \in RawProposal :
        /\ p.filename = "a.test.ts"
        /\ p.testContent = "c2"
        /\ p.action \in {"create", "rename"}
        /\ p.action = "rename" => p.oldFilename = "__tests__/unit/a.test.ts"}

ProposalModelResults ==
    {ModelThrows} \cup
    [kind : {"object"}, testProposals : SeqsUpTo(FlowProposal, MaxProposals)]

generateTestsForChanges(res, changedFiles) ==
    IF res.kind = "object"
    THEN finalizeTestProposals(res.testProposals, changedFiles)
    ELSE <<>>

\* let recommendation of handleTestGeneration
recommendationOf(review) ==
    IF review.defined THEN <<Tok("Review Analysis:", 0, review.summary)>>
    ELSE <<>>

(***************************************************************************)
(* Commit Applier (commitTests of test-proposals.ts).  A fault names the   *)
(* content-store call of one proposal that fails with a non-404 error.     *)
(***************************************************************************)
Faults == {"probeOld", "deleteOld", "probe", "write"}

isRename(p) ==
    p.action = "rename" /\ p.oldFilename # "" /\ p.oldFilename # p.filename

\* one iteration of the loop over proposals: the branch afterwards and
\* whether the iteration threw
applyProposal(b, p, fault) ==
    LET \* "sha" in oldFile: the old path is a file
        oldHasSha == isRename(p) /\ b[p.oldFilename] \notin {Absent, Dir}
        threwInRename ==
            \/ isRename(p) /\ fault = "probeOld"
            \/ oldHasSha /\ fault = "deleteOld"
        b1 == IF oldHasSha /\ ~threwInRename
              THEN [b EXCEPT ![p.oldFilename] = Absent]
              ELSE b
        \* the target is a directory: no "sha" in existingFile, nothing is written
        targetIsDir == b1[p.filename] = Dir
        threwInWrite ==
            \/ fault = "probe"
            \/ ~targetIsDir /\ fault = "write"
    IN IF threwInRename THEN [branch |-> b, threw |-> TRUE]
       ELSE IF threwInWrite THEN [branch |-> b1, threw |-> TRUE]
       ELSE IF targetIsDir THEN [branch |-> b1, threw |-> FALSE]
       ELSE [branch |-> [b1 EXCEPT ![p.filename] = p.testContent],
             threw |-> FALSE]

\* commitTests with the fault (if any) hitting proposal number failAt
RECURSIVE commitTests(_, _, _, _)
commitTests(b, ps, failAt, fault) ==
    IF ps = <<>> THEN [branch |-> b, threw |-> FALSE]
    ELSE LET r == applyProposal(b, Head(ps),
                                IF failAt = 1 THEN fault ELSE "none")
         IN IF r.threw THEN r
            ELSE commitTests(r.branch, Tail(ps), failAt - 1, fault)

(***************************************************************************)
(* Test Executor (runLocalTests).  flow-runner.ts imports it from           *)
(* ./test-runner; it is modelled from the flow script the modules were     *)
(* extracted from (src/unnamed/part_002, the same in scripts/ai-flow.ts).  *)
(***************************************************************************)
\* What execSync("npm run test") does: it returns the output when the
\* command exits with status 0 and throws otherwise; the error carries
\* stdout when the command ran, and only a message when it could not be
\* spawned.
ExecResults ==
    {[kind |-> "exitZero", stdout |-> "ok", message |-> ""],
     [kind |-> "exitNonZero", stdout |-> "e1", message |-> "Command failed"],
     [kind |-> "exitNonZero", stdout |-> "", message |-> "Command failed"],
     [kind |-> "spawnError", stdout |-> "", message |-> "spawn ENOENT"],
     [kind |-> "spawnError", stdout |-> "", message |-> ""]}

runLocalTests(exec) ==
    IF exec.kind = "exitZero"
    THEN [jestFailed |-> FALSE, output |-> exec.stdout]
    ELSE [jestFailed |-> TRUE,
          output |-> IF exec.stdout # "" THEN exec.stdout
                     ELSE IF exec.message # "" THEN exec.message
                     ELSE "Unknown error"]

(***************************************************************************)
(* Initial state: the process has started, nothing has run.                *)
(***************************************************************************)
EnvChoices ==
    [GITHUB_TOKEN : BOOLEAN, GITHUB_EVENT_PATH : BOOLEAN,
     pull_request : BOOLEAN, GITHUB_REPOSITORY : BOOLEAN]

PRFileSamples ==
    {[filename |-> "lib/util.ts", status |-> "added",
      fetch |-> [kind |-> "file", content |-> "plain"]],
     [filename |-> "components/Box.tsx", status |-> "added",
      fetch |-> [kind |-> "file", content |-> "react"]],
     [filename |-> "lib/util.ts", status |-> "added",
      fetch |-> [kind |-> "error", content |-> ""]]}

PRFileChoices == SeqsUpTo(PRFileSamples, MaxChangedFiles)

EmptyBranch == [f \in TestFileNames |-> Absent]

InitialBranches ==
    {EmptyBranch, [EmptyBranch EXCEPT !["__tests__/unit/a.test.ts"] = "c1"]}

NoContext == [changedFiles |-> <<>>]

NoTestContext == [changedFiles |-> <<>>, existingTestFiles |-> EmptyBranch]

\* undefined, as a value of type ReviewAnalysis | undefined
NoReview == [defined |-> FALSE, summary |-> ""]

NoGateModel ==
    [kind |-> None, shouldGenerate |-> FALSE, recommendation |-> ""]

NoResult == [jestFailed |-> FALSE, output |-> None]

NoGating == [shouldGenerate |-> FALSE, reason |-> None, testBody |-> <<>>]

NoGen == [kind |-> None, model |-> None, recommendation |-> <<>>,
          existingTestFiles |-> EmptyBranch]

NoCommit == [step |-> "idle", idx |-> 0, sha |-> [blob |-> None],
             concurrent |-> FALSE, writes |-> 0, raced |-> None,
             error |-> None, initial |-> EmptyBranch,
             afterPrevious |-> EmptyBranch]

\* no component is called on its own
NoCall == [fn |-> None]

\* nothing has run yet
Blank ==
    /\ baseContext = NoContext
    /\ testContext = NoTestContext
    /\ reviewAnalysis = NoReview
    /\ gating = NoGating
    /\ gateModel = NoGateModel
    /\ testBody = <<>>
    /\ hBody = <<>>
    /\ hReview = NoReview
    /\ caller = None
    /\ lastGen = NoGen
    /\ testResult = NoResult
    /\ lastExec = None
    /\ iteration = 0
    /\ comments = [created |-> 0, review |-> <<>>, test |-> <<>>]
    /\ pushes = [prev |-> <<>>, last |-> <<>>, count |-> 0]
    /\ log = <<>>
    /\ thrown = None
    /\ exitCode = None
    /\ outcome = None

Init ==
    /\ pc = "start"
    /\ env \in EnvChoices
    /\ prFiles \in PRFileChoices
    /\ branch \in InitialBranches
    /\ proposals = <<>>
    /\ commit = NoCommit
    /\ call = NoCall
    /\ Blank

(***************************************************************************)
(* Helpers for the actions.                                                *)
(***************************************************************************)
\* an error leaves runFlow: everything else stays as the failing call left it
Throw(what) ==
    /\ pc' = "thrown"
    /\ thrown' = what

\* process.exit(code) inside runFlow
Exit(code, result) ==
    /\ pc' = "done"
    /\ exitCode' = code
    /\ outcome' = result

\* a status report is posted as a new comment
PushTest_createsComment(body) ==
    /\ comments' = [comments EXCEPT !.created = @ + 1, !.test = body]
    /\ pushes' = [prev |-> pushes.last, last |-> body,
                  count |-> pushes.count + 1]

\* updateComment(octokit, context, testCommentId, body), when it succeeds
PushTest(body) ==
    /\ comments' = [comments EXCEPT !.test = body]
    /\ pushes' = [prev |-> pushes.last, last |-> body,
                  count |-> pushes.count + 1]

\* n: the number of proposals returned (generate) or passed (commit)
Event(t, fix, ok, n) == [t |-> t, fix |-> fix, ok |-> ok, n |-> n]

(***************************************************************************)
(* runFlow, lines 12-35: the startup checks.                               *)
(***************************************************************************)
\* the flow starts without the credential
CheckEnv_tokenOptional ==
    /\ pc = "start"
    /\ IF ~env.GITHUB_EVENT_PATH \/ ~env.pull_request
               \/ ~env.GITHUB_REPOSITORY
       THEN Exit(0, "noop")
       ELSE /\ pc' = "buildPRContext"
            /\ UNCHANGED <<exitCode, outcome>>
    /\ UNCHANGED <<env, prFiles, branch, baseContext, testContext,
                   reviewAnalysis, gating, gateModel, testBody, hBody, hReview,
                   caller, proposals, lastGen, testResult, lastExec, iteration,
                   comments, pushes, log, thrown>>
    /\ UNCHANGED <<commit, call>>

\* the flow goes on for an event that is not a pull request
CheckEnv_runsWithoutPR ==
    /\ pc = "start"
    /\ IF ~env.GITHUB_TOKEN
       THEN Exit(1, "noToken")
       ELSE IF ~env.GITHUB_EVENT_PATH \/ ~env.GITHUB_REPOSITORY
       THEN Exit(0, "noop")
       ELSE /\ pc' = "buildPRContext"
            /\ UNCHANGED <<exitCode, outcome>>
    /\ UNCHANGED <<env, prFiles, branch, baseContext, testContext,
                   reviewAnalysis, gating, gateModel, testBody, hBody, hReview,
                   caller, proposals, lastGen, testResult, lastExec, iteration,
                   comments, pushes, log, thrown>>
    /\ UNCHANGED <<commit, call>>

CheckEnv ==
    /\ pc = "start"
    /\ IF ~env.GITHUB_TOKEN
       THEN Exit(1, "noToken")
       ELSE IF ~env.GITHUB_EVENT_PATH \/ ~env.pull_request
               \/ ~env.GITHUB_REPOSITORY
       THEN Exit(0, "noop")
       ELSE /\ pc' = "buildPRContext"
            /\ UNCHANGED <<exitCode, outcome>>
    /\ UNCHANGED <<env, prFiles, branch, baseContext, testContext,
                   reviewAnalysis, gating, gateModel, testBody, hBody, hReview,
                   caller, proposals, lastGen, testResult, lastExec, iteration,
                   comments, pushes, log, thrown>>
    /\ UNCHANGED <<commit, call>>

(***************************************************************************)
(* runFlow, line 41: buildPRContext.                                       *)
(***************************************************************************)
BuildPRContext ==
    /\ pc = "buildPRContext"
    /\ \E apiOk \in BOOLEAN :
        IF ~apiOk \/ buildPRContextThrows(prFiles)
        THEN /\ Throw("buildPRContext")
             /\ UNCHANGED baseContext
        ELSE /\ baseContext' = buildPRContext(prFiles)
             /\ pc' = "createReviewComment"
             /\ UNCHANGED thrown
    /\ UNCHANGED <<env, prFiles, branch, testContext, reviewAnalysis, gating,
                   gateModel, testBody, hBody, hReview, caller, proposals,
                   lastGen, testResult, lastExec, iteration, comments, pushes, log,
                   exitCode, outcome>>
    /\ UNCHANGED <<commit, call>>

(***************************************************************************)
(* runFlow, lines 43-44: the review comment is created.                    *)
(***************************************************************************)
CreateReviewComment ==
    /\ pc = "createReviewComment"
    /\ \E apiOk \in BOOLEAN :
        IF ~apiOk
        THEN /\ Throw("createComment")
             /\ UNCHANGED comments
        ELSE /\ comments' = [comments EXCEPT
                                !.created = @ + 1,
                                !.review = <<Tok("### AI Code Review", 0, "")>>]
             /\ pc' = "handleReviewAgent"
             /\ UNCHANGED thrown
    /\ UNCHANGED <<env, prFiles, branch, baseContext, testContext,
                   reviewAnalysis, gating, gateModel, testBody, hBody, hReview,
                   caller, proposals, lastGen, testResult, lastExec, iteration,
                   pushes, log, exitCode, outcome>>
    /\ UNCHANGED <<commit, call>>

(***************************************************************************)
(* runFlow, lines 45-50: handleReviewAgent.                                *)
(***************************************************************************)
HandleReviewAgent ==
    /\ pc = "handleReviewAgent"
    /\ \E setupOk \in BOOLEAN, res \in ReviewModelResults, apiOk \in BOOLEAN :
        LET analysis == generateReview(res)
            reviewBody == comments.review
                              \o <<Tok("**Summary**", 0, analysis.summary)>>
        IN IF ~setupOk
           THEN /\ Throw("getLLMModel")
                /\ UNCHANGED <<comments, reviewAnalysis>>
           ELSE IF ~apiOk
           THEN /\ Throw("updateComment")
                /\ UNCHANGED <<comments, reviewAnalysis>>
           ELSE /\ comments' = [comments EXCEPT !.review = reviewBody]
                /\ reviewAnalysis' = analysis
                /\ pc' = "createTestComment"
                /\ UNCHANGED thrown
    /\ UNCHANGED <<env, prFiles, branch, baseContext, testContext, gating,
                   gateModel, testBody, hBody, hReview, caller, proposals,
                   lastGen, testResult, lastExec, iteration, pushes, log, exitCode,
                   outcome>>
    /\ UNCHANGED <<commit, call>>

(***************************************************************************)
(* runFlow, lines 52-53: the test-flow comment is created.                 *)
(***************************************************************************)
CreateTestComment ==
    /\ pc = "createTestComment"
    /\ \E apiOk \in BOOLEAN :
        LET body == <<Tok("### AI Test Generation", 0, "")>>
        IN IF ~apiOk
           THEN /\ Throw("createComment")
                /\ UNCHANGED <<comments, pushes, testBody>>
           ELSE /\ testBody' = body
                /\ comments' = [comments EXCEPT !.created = @ + 1,
                                                !.test = body]
                /\ pushes' = [prev |-> <<>>, last |-> body, count |-> 1]
                /\ pc' = "buildTestContext"
                /\ UNCHANGED thrown
    /\ UNCHANGED <<env, prFiles, branch, baseContext, testContext,
                   reviewAnalysis, gating, gateModel, hBody, hReview,
                   caller, proposals, lastGen, testResult, lastExec, iteration, log,
                   exitCode, outcome>>
    /\ UNCHANGED <<commit, call>>

(***************************************************************************)
(* runFlow, line 54: buildTestContext.                                     *)
(***************************************************************************)
BuildTestContext ==
    /\ pc = "buildTestContext"
    /\ \E apiOk \in BOOLEAN :
        IF ~apiOk
        THEN /\ Throw("buildTestContext")
             /\ UNCHANGED testContext
        ELSE /\ testContext' =
                    [changedFiles |-> baseContext.changedFiles,
                     existingTestFiles |-> getAllTestFiles(branch)]
             /\ pc' = "gatingStep"
             /\ UNCHANGED thrown
    /\ UNCHANGED <<env, prFiles, branch, baseContext, reviewAnalysis, gating,
                   gateModel, testBody, hBody, hReview, caller, proposals,
                   lastGen, testResult, lastExec, iteration, comments, pushes, log,
                   exitCode, outcome>>
    /\ UNCHANGED <<commit, call>>

(***************************************************************************)
(* runFlow, lines 56-67: gatingStep, the skip exit, and the call of        *)
(* handleTestGeneration for the initial generation.                        *)
(***************************************************************************)
\* the skip is not reported
postsSkip_never(g) == FALSE

\* test-gating.ts line 27: if (!gating.shouldGenerate), the skip text is posted
postsSkip(g) == ~g.shouldGenerate

\* the skip does not end the flow
exitsOnSkip_never(g) == FALSE

\* flow-runner.ts line 63: if (!gating.shouldGenerate) process.exit(0)
exitsOnSkip(g) == ~g.shouldGenerate

GatingStep ==
    /\ pc = "gatingStep"
    /\ \E api1Ok \in BOOLEAN, setupOk \in BOOLEAN, res \in GateModelResults,
          api2Ok \in BOOLEAN :
        LET body1 == testBody \o <<Tok("**Gating Step**", 0, "")>>
            g == gatingStepLogic(res)
            body2 == body1 \o <<Tok("Skipping test generation:", 0, g.reason)>>
            pushed1 == [prev |-> pushes.last, last |-> body1,
                        count |-> pushes.count + 1]
            pushed2 == [prev |-> body1, last |-> body2,
                        count |-> pushes.count + 2]
        IN IF ~api1Ok
           THEN /\ Throw("updateComment")
                /\ UNCHANGED <<comments, pushes, gating, gateModel, testBody,
                               hBody, hReview, caller, exitCode, outcome>>
           ELSE IF ~setupOk
           THEN /\ Throw("getLLMModel")
                /\ comments' = [comments EXCEPT !.test = body1]
                /\ pushes' = pushed1
                /\ UNCHANGED <<gating, gateModel, testBody, hBody, hReview,
                               caller, exitCode, outcome>>
           ELSE IF postsSkip(g) /\ ~api2Ok
           THEN /\ Throw("updateComment")
                /\ comments' = [comments EXCEPT !.test = body1]
                /\ pushes' = pushed1
                /\ gateModel' = [kind |-> res.kind,
                                 shouldGenerate |-> g.shouldGenerate,
                                 recommendation |-> g.recommendation]
                /\ UNCHANGED <<gating, testBody, hBody, hReview, caller,
                               exitCode, outcome>>
           ELSE LET returned == [shouldGenerate |-> g.shouldGenerate,
                                 reason |-> g.reason,
                                 testBody |-> IF postsSkip(g) THEN body2
                                              ELSE body1]
                IN /\ comments' = [comments EXCEPT !.test = returned.testBody]
                   /\ pushes' = IF postsSkip(g) THEN pushed2 ELSE pushed1
                   /\ gateModel' = [kind |-> res.kind,
                                    shouldGenerate |-> g.shouldGenerate,
                                    recommendation |-> g.recommendation]
                   /\ gating' = returned
                   /\ IF exitsOnSkip(returned)
                      THEN /\ Exit(0, "skip")
                           /\ UNCHANGED <<testBody, hBody, hReview, caller,
                                          thrown>>
                      ELSE /\ testBody' = returned.testBody
                           /\ hBody' = returned.testBody
                           /\ hReview' = reviewAnalysis
                           /\ caller' = "runFlow"
                           /\ pc' = "handleTestGeneration"
                           /\ UNCHANGED <<thrown, exitCode, outcome>>
    /\ UNCHANGED <<env, prFiles, branch, baseContext, testContext,
                   reviewAnalysis, proposals, lastGen, testResult, lastExec,
                   iteration, log>>
    /\ UNCHANGED <<commit, call>>

(***************************************************************************)
(* handleTestGeneration, lines 38-39: the announcement.                    *)
(***************************************************************************)
AnnounceGeneration ==
    /\ pc = "handleTestGeneration"
    /\ \E apiOk \in BOOLEAN :
        LET body == hBody \o <<Tok("**Generating Tests**...", 0, "")>>
        IN /\ hBody' = body
           /\ IF ~apiOk
              THEN /\ Throw("updateComment")
                   /\ UNCHANGED <<comments, pushes>>
              ELSE /\ PushTest(body)
                   /\ pc' = "generateTestsForChanges"
                   /\ UNCHANGED thrown
    /\ UNCHANGED <<env, prFiles, branch, baseContext, testContext,
                   reviewAnalysis, gating, gateModel, testBody, hReview,
                   caller, proposals, lastGen, testResult, lastExec,
                   iteration, log, exitCode, outcome>>
    /\ UNCHANGED <<commit, call>>

(***************************************************************************)
(* handleTestGeneration, lines 41-46: the call of generateTestsForChanges. *)
(***************************************************************************)
\* commitTests is called although there is nothing to commit
commitsProposals_always(ps) == TRUE

\* line 47: if (proposals.length > 0)
commitsProposals(ps) == Len(ps) > 0

\* the test run starts while the proposals are still uncommitted
afterGenerate_testsFirst(result) == "runLocalTests"

\* lines 46-61: the awaited generator call is followed by the commit of
\* what it returned, or by the report when it returned nothing
afterGenerate(result) ==
    IF commitsProposals(result) THEN "commitTests" ELSE "reportGeneration"

GenerateFrom(answers) ==
    /\ pc = "generateTestsForChanges"
    /\ \E setupOk \in BOOLEAN, res \in answers :
        LET recommendation == recommendationOf(hReview)
            result == generateTestsForChanges(res, testContext.changedFiles)
        IN /\ lastGen' = [kind |-> caller,
                          model |-> IF setupOk THEN res.kind ELSE None,
                          recommendation |-> recommendation,
                          existingTestFiles |-> testContext.existingTestFiles]
           /\ log' = Append(log, Event("generate", caller = "handleTestFix",
                                       setupOk,
                                       IF setupOk THEN Len(result) ELSE 0))
           /\ IF ~setupOk
              THEN /\ Throw("getLLMModel")
                   /\ UNCHANGED proposals
              ELSE /\ proposals' = result
                   /\ pc' = afterGenerate(result)
                   /\ UNCHANGED thrown
    /\ UNCHANGED <<env, prFiles, branch, baseContext, testContext,
                   reviewAnalysis, gating, gateModel, testBody, hBody, hReview,
                   caller, testResult, lastExec, iteration, comments, pushes,
                   exitCode, outcome>>
    /\ UNCHANGED <<commit, call>>

GenerateTestsForChanges == GenerateFrom(ProposalModelResults)

(***************************************************************************)
(* handleTestGeneration, lines 47-54: commitTests.                         *)
(***************************************************************************)
\* lines 48-54: await commitTests(...) is not inside a try: its error leaves
\* handleTestGeneration
\* the error of commitTests is swallowed
commitErrorPropagates_swallowed(r) == FALSE

commitErrorPropagates(r) == r.threw

CommitTests ==
    /\ pc = "commitTests"
    /\ \E failAt \in 0..Len(proposals), fault \in Faults :
        LET r == commitTests(branch, proposals, failAt, fault)
        IN /\ branch' = r.branch
           /\ log' = Append(log, Event("commit", caller = "handleTestFix",
                                       ~r.threw, Len(proposals)))
           /\ IF commitErrorPropagates(r)
              THEN Throw("commitTests")
              ELSE /\ pc' = "reportGeneration"
                   /\ UNCHANGED thrown
    /\ UNCHANGED <<env, prFiles, baseContext, testContext, reviewAnalysis,
                   gating, gateModel, testBody, hBody, hReview, caller,
                   proposals, lastGen, testResult, lastExec, iteration,
                   comments, pushes, exitCode, outcome>>
    /\ UNCHANGED <<commit, call>>

(***************************************************************************)
(* handleTestGeneration, lines 55-62: the result is reported.              *)
(***************************************************************************)
ReportGeneration ==
    /\ pc = "reportGeneration"
    /\ \E apiOk \in BOOLEAN :
        LET body == IF Len(proposals) > 0
                    THEN hBody
                         \o <<Tok("**Proposed new/updated tests:**", 0, "")>>
                         \o FileLines(proposals)
                    ELSE hBody
                         \o <<Tok("No new test proposals from AI.", 0, "")>>
        IN IF ~apiOk
           THEN /\ Throw("updateComment")
                /\ hBody' = body
                /\ UNCHANGED <<comments, pushes, proposals>>
           ELSE \* the handler returns: its parameters and locals are gone
                /\ PushTest(body)
                /\ hBody' = <<>>
                /\ proposals' = <<>>
                /\ pc' = "runLocalTests"
                /\ UNCHANGED thrown
    /\ UNCHANGED <<env, prFiles, branch, baseContext, testContext,
                   reviewAnalysis, gating, gateModel, testBody, hReview,
                   caller, lastGen, testResult, lastExec, iteration, log,
                   exitCode, outcome>>
    /\ UNCHANGED <<commit, call>>

(***************************************************************************)
(* runFlow, lines 76 and 92: runLocalTests.                                *)
(***************************************************************************)
RunLocalTests ==
    /\ pc = "runLocalTests"
    /\ \E exec \in ExecResults :
        /\ testResult' = runLocalTests(exec)
        /\ lastExec' = exec.kind
        /\ log' = Append(log, Event("test", caller = "handleTestFix",
                                    ~runLocalTests(exec).jestFailed, 0))
    /\ pc' = "while"
    /\ UNCHANGED <<env, prFiles, branch, baseContext, testContext,
                   reviewAnalysis, gating, gateModel, testBody, hBody, hReview,
                   caller, proposals, lastGen, iteration, comments, pushes,
                   thrown, exitCode, outcome>>
    /\ UNCHANGED <<commit, call>>

(***************************************************************************)
(* runFlow, lines 80-83: the loop condition and the start of an iteration. *)
(***************************************************************************)
\* the loop runs one iteration too many
whileCondition_offByOne(result, iter) ==
    result.jestFailed /\ iter <= maxIterations

\* the loop does not look at the test result
whileCondition_ignoresResult(result, iter) == iter < maxIterations

\* the number of the fix attempt that follows
nextIteration_skipsOne(iter) == iter + 2

\* iteration++ (line 81)
nextIteration(iter) == iter + 1

whileCondition(result, iter) == result.jestFailed /\ iter < maxIterations

\* the loop is left only on a passing run: at the bound it spins without
\* making a fix
leavesLoop_onlyOnPass(result, iter) == ~result.jestFailed

\* lines 80 and 95: the statement after the loop runs once the condition
\* is false
leavesLoop(result, iter) == ~whileCondition(result, iter)

StartFixIteration ==
    /\ pc = "while"
    /\ whileCondition(testResult, iteration)
    /\ \E apiOk \in BOOLEAN :
        LET body == testBody \o <<Tok("**Test Fix #", iteration + 1, "")>>
        IN /\ iteration' = nextIteration(iteration)
           /\ testBody' = body
           /\ IF ~apiOk
              THEN /\ Throw("updateComment")
                   /\ UNCHANGED <<comments, pushes>>
              ELSE /\ PushTest(body)
                   /\ pc' = "handleTestFix"
                   /\ UNCHANGED thrown
    /\ UNCHANGED <<env, prFiles, branch, baseContext, testContext,
                   reviewAnalysis, gating, gateModel, hBody, hReview, caller,
                   proposals, lastGen, testResult, lastExec, log, exitCode,
                   outcome>>
    /\ UNCHANGED <<commit, call>>

(***************************************************************************)
(* runFlow, lines 84-91, and handleTestFix (test-fix.ts).                  *)
(***************************************************************************)
fixPrompt(iter, testErrorOutput) ==
    <<Tok("We have failing tests (attempt #", iter, ""),
      Tok("Here is the error output:", 0, testErrorOutput),
      Tok("Please fix or create new tests as needed", 0, "")>>

HandleTestFix ==
    /\ pc = "handleTestFix"
    /\ hBody' = testBody \o fixPrompt(iteration, testResult.output)
    /\ hReview' = NoReview
    /\ caller' = "handleTestFix"
    /\ pc' = "handleTestGeneration"
    /\ UNCHANGED <<env, prFiles, branch, baseContext, testContext,
                   reviewAnalysis, gating, gateModel, testBody, proposals,
                   lastGen, testResult, lastExec, iteration, comments, pushes,
                   log, thrown, exitCode, outcome>>
    /\ UNCHANGED <<commit, call>>

(***************************************************************************)
(* runFlow, lines 95-103: the final report and the exit.                   *)
(***************************************************************************)
\* the success branch exits like the failure branch
exitStatus_alwaysOne(result) == 1

exitStatus(result) == IF ~result.jestFailed THEN 0 ELSE 1

\* a pass on the run after the last fix is reported as a failure
reportsSuccess_onlyBeforeBound(result, iter) ==
    ~result.jestFailed /\ iter < maxIterations

\* line 95: which of the two final reports is posted
reportsSuccess(result, iter) == ~result.jestFailed

FinalReport ==
    /\ pc = "while"
    /\ leavesLoop(testResult, iteration)
    /\ \E apiOk \in BOOLEAN :
        LET body == IF reportsSuccess(testResult, iteration)
                    THEN testBody \o <<Tok("All tests passing", 0, "")>>
                    ELSE testBody
                         \o <<Tok("Tests failing after fix attempts:",
                                  maxIterations, "")>>
        IN /\ testBody' = body
           /\ IF ~apiOk
              THEN /\ Throw("updateComment")
                   /\ UNCHANGED <<comments, pushes, exitCode, outcome>>
              ELSE /\ PushTest(body)
                   /\ Exit(exitStatus(testResult),
                           IF reportsSuccess(testResult, iteration)
                           THEN "success"
                           ELSE "exhausted")
                   /\ UNCHANGED thrown
    /\ UNCHANGED <<env, prFiles, branch, baseContext, testContext,
                   reviewAnalysis, gating, gateModel, hBody, hReview, caller,
                   proposals, lastGen, testResult, lastExec, iteration, log>>
    /\ UNCHANGED <<commit, call>>

(***************************************************************************)
(* The entry point: runFlow().catch(err => process.exit(1)).               *)
(***************************************************************************)
catchExitStatus == 1

\* the catch handler exits with a success status
Catch_exitsWithSuccess ==
    /\ pc = "thrown"
    /\ Exit(0, "fatal")
    /\ UNCHANGED <<env, prFiles, branch, baseContext, testContext,
                   reviewAnalysis, gating, gateModel, testBody, hBody, hReview,
                   caller, proposals, lastGen, testResult, lastExec,
                   iteration, comments, pushes, log, thrown>>
    /\ UNCHANGED <<commit, call>>

Catch ==
    /\ pc = "thrown"
    /\ Exit(catchExitStatus, "fatal")
    /\ UNCHANGED <<env, prFiles, branch, baseContext, testContext,
                   reviewAnalysis, gating, gateModel, testBody, hBody, hReview,
                   caller, proposals, lastGen, testResult, lastExec,
                   iteration, comments, pushes, log, thrown>>
    /\ UNCHANGED <<commit, call>>

Next ==
    \/ CheckEnv
    \/ BuildPRContext
    \/ CreateReviewComment
    \/ HandleReviewAgent
    \/ CreateTestComment
    \/ BuildTestContext
    \/ GatingStep
    \/ AnnounceGeneration
    \/ GenerateTestsForChanges
    \/ CommitTests
    \/ ReportGeneration
    \/ RunLocalTests
    \/ StartFixIteration
    \/ HandleTestFix
    \/ FinalReport
    \/ Catch

Spec == Init /\ [][Next]_vars

\* every call of runFlow is awaited and, by the assumption of the termination
\* property, returns or fails: a step that can be taken is taken
\* the flows of a pull request whose branch holds no test file yet
InitLive == Init /\ branch = EmptyBranch

SpecLive == InitLive /\ [][Next]_vars /\ WF_vars(Next)

(***************************************************************************)
(* commitTests call by call (test-proposals.ts, commitTests).  Every call  *)
(* of the content store is one step, so that another writer of the branch  *)
(* can act between a probe and the write that follows it.                  *)
(***************************************************************************)
MaxBatch == 2
MaxWriterSteps == 1

\* the revision marker of a file is the hash of its content
blobSha(content) == [blob |-> content]

NoSha == [blob |-> None]

\* content written by the other writer of the branch
WriterContent == "w"

\* repos.getContent: 404 for an absent path, a listing without sha for a
\* directory, the file with its sha otherwise
getContent(b, path) ==
    IF b[path] = Absent THEN [status |-> "404", hasSha |-> FALSE, sha |-> NoSha]
    ELSE IF b[path] = Dir THEN [status |-> "200", hasSha |-> FALSE, sha |-> NoSha]
    ELSE [status |-> "200", hasSha |-> TRUE, sha |-> blobSha(b[path])]

\* repos.deleteFile with the sha of the probe: refused when the file has changed
deleteFile(b, path, sha) ==
    IF b[path] \notin {Absent, Dir} /\ sha = blobSha(b[path])
    THEN [status |-> "200", branch |-> [b EXCEPT ![path] = Absent]]
    ELSE [status |-> "409", branch |-> b]

\* repos.createOrUpdateFileContents with a sha: refused when the file has changed
updateFile(b, path, content, sha) ==
    IF b[path] \notin {Absent, Dir} /\ sha = blobSha(b[path])
    THEN [status |-> "200", branch |-> [b EXCEPT ![path] = content]]
    ELSE [status |-> "409", branch |-> b]

\* repos.createOrUpdateFileContents without sha: refused when the path exists
createFile(b, path, content) ==
    IF b[path] = Absent
    THEN [status |-> "200", branch |-> [b EXCEPT ![path] = content]]
    ELSE [status |-> "422", branch |-> b]

\* catch (err) { if (err.status !== 404) throw err }
afterRenameError(status) == IF status = "404" THEN "probe" ELSE "threw"

afterWriteError_retries(status) == IF status = "404" THEN "create" ELSE "probe"

\* catch (error) { if (error.status === 404) create else throw error }
afterWriteError(status) == IF status = "404" THEN "create" ELSE "threw"

shaForWrite_remembered(probe) ==
    blobSha(commit.initial[proposals[commit.idx].filename])

\* the sha handed to the write is the one of the probe just made
shaForWrite(probe) == probe.sha

\* where the loop body starts for proposal number i
stepOf(ps, i) ==
    IF i > Len(ps) THEN "returned"
    ELSE IF isRename(ps[i]) THEN "probeOld"
    ELSE "probe"

CommitPaths == {f \in TestFileNames : includesTestsUnit(f)}

\* the branch holds "c1" where it holds a file; the proposals bring "c2"
CommitProposal ==
    {p \in RawProposal : p.filename \in CommitPaths /\ p.testContent = "c2"}

CommitBranches ==
    {b \in [TestFileNames -> {Absent, "c1", Dir}] :
        \A f \in TestFileNames \ CommitPaths : b[f] = Absent}

InitCommit ==
    /\ pc = "commitTests"
    /\ env = [GITHUB_TOKEN |-> TRUE, GITHUB_EVENT_PATH |-> TRUE,
              pull_request |-> TRUE, GITHUB_REPOSITORY |-> TRUE]
    /\ prFiles = <<>>
    /\ branch \in CommitBranches
    /\ proposals \in SeqsUpTo(CommitProposal, MaxBatch) \ {<<>>}
    /\ \E c \in BOOLEAN :
        commit = [step |-> stepOf(proposals, 1), idx |-> 1, sha |-> NoSha,
                  concurrent |-> c, writes |-> 0, raced |-> None,
                  error |-> None, initial |-> branch,
                  afterPrevious |-> branch]
    /\ call = NoCall
    /\ Blank


CommitUnchanged ==
    UNCHANGED <<env, prFiles, baseContext, testContext, reviewAnalysis, gating,
                gateModel, testBody, hBody, hReview, caller, proposals, lastGen,
                testResult, lastExec, iteration, comments, pushes, log,
                exitCode, outcome, call>>

\* the error leaves commitTests
CommitThrows(status) ==
    /\ commit' = [commit EXCEPT !.step = "threw", !.error = status]
    /\ pc' = "thrown"
    /\ thrown' = "commitTests"
    /\ UNCHANGED branch

CommitGoes(step) ==
    /\ commit' = [commit EXCEPT !.step = step]
    /\ UNCHANGED <<pc, thrown, branch>>

\* getContent of the old path of a rename
ProbeOld ==
    /\ commit.step = "probeOld"
    /\ \E ok \in BOOLEAN :
        LET p == proposals[commit.idx]
            r == getContent(branch, p.oldFilename)
            status == IF ok THEN r.status ELSE "500"
        IN IF status = "200"
           THEN IF r.hasSha
                THEN /\ commit' = [commit EXCEPT !.step = "deleteOld",
                                                 !.sha = r.sha]
                     /\ UNCHANGED <<pc, thrown, branch>>
                ELSE CommitGoes("probe")
           ELSE IF afterRenameError(status) = "threw"
                THEN CommitThrows(status)
                ELSE CommitGoes(afterRenameError(status))
    /\ CommitUnchanged

\* deleteFile of the old path with the sha of its probe
DeleteOld ==
    /\ commit.step = "deleteOld"
    /\ \E ok \in BOOLEAN :
        LET p == proposals[commit.idx]
            r == deleteFile(branch, p.oldFilename, commit.sha)
            status == IF ok THEN r.status ELSE "500"
        IN IF status = "200"
           THEN /\ branch' = r.branch
                /\ commit' = [commit EXCEPT !.step = "probe", !.sha = NoSha]
                /\ UNCHANGED <<pc, thrown>>
           ELSE IF afterRenameError(status) = "threw"
                THEN CommitThrows(status)
                ELSE CommitGoes(afterRenameError(status))
    /\ CommitUnchanged

\* getContent of the target path
Probe ==
    /\ commit.step = "probe"
    /\ \E ok \in BOOLEAN :
        LET p == proposals[commit.idx]
            r == getContent(branch, p.filename)
            status == IF ok THEN r.status ELSE "500"
        IN IF status = "200"
           THEN IF r.hasSha
                THEN /\ commit' = [commit EXCEPT !.step = "update",
                                                 !.sha = shaForWrite(r)]
                     /\ UNCHANGED <<pc, thrown, branch>>
                ELSE CommitGoes("applied")
           ELSE IF afterWriteError(status) = "threw"
                THEN CommitThrows(status)
                ELSE CommitGoes(afterWriteError(status))
    /\ CommitUnchanged

\* createOrUpdateFileContents with the sha of the probe
UpdateFile ==
    /\ commit.step = "update"
    /\ \E ok \in BOOLEAN :
        LET p == proposals[commit.idx]
            r == updateFile(branch, p.filename, p.testContent, commit.sha)
            status == IF ok THEN r.status ELSE "500"
        IN IF status = "200"
           THEN /\ branch' = r.branch
                /\ commit' = [commit EXCEPT !.step = "applied"]
                /\ UNCHANGED <<pc, thrown>>
           ELSE IF afterWriteError(status) = "threw"
                THEN CommitThrows(status)
                ELSE CommitGoes(afterWriteError(status))
    /\ CommitUnchanged

\* createOrUpdateFileContents without sha, in the catch block: its error
\* leaves commitTests
CreateFile ==
    /\ commit.step = "create"
    /\ \E ok \in BOOLEAN :
        LET p == proposals[commit.idx]
            r == createFile(branch, p.filename, p.testContent)
            status == IF ok THEN r.status ELSE "500"
        IN IF status = "200"
           THEN /\ branch' = r.branch
                /\ commit' = [commit EXCEPT !.step = "applied"]
                /\ UNCHANGED <<pc, thrown>>
           ELSE CommitThrows(status)
    /\ CommitUnchanged

\* for (const p of proposals): the next proposal, or the return
NextProposal ==
    /\ commit.step = "applied"
    /\ commit' = [commit EXCEPT !.step = stepOf(proposals, commit.idx + 1),
                                !.idx = commit.idx + 1,
                                !.sha = NoSha,
                                !.raced = None,
                                !.afterPrevious = branch]
    /\ UNCHANGED <<pc, thrown, branch>>
    /\ CommitUnchanged

\* the path whose probe has been made and whose write is still to come
pendingPath ==
    IF commit.step = "deleteOld" THEN proposals[commit.idx].oldFilename
    ELSE IF commit.step \in {"update", "create"} THEN proposals[commit.idx].filename
    ELSE None

\* another writer of the branch stores its content at a path
OtherWriter ==
    /\ commit.concurrent
    /\ commit.writes < MaxWriterSteps
    /\ commit.step \notin {"returned", "threw"}
    /\ \E path \in CommitPaths :
        /\ branch[path] # Dir
        /\ branch' = [branch EXCEPT ![path] = WriterContent]
        /\ commit' = [commit EXCEPT
                        !.writes = commit.writes + 1,
                        !.raced = IF path = pendingPath /\ branch[path] # WriterContent
                                  THEN path ELSE commit.raced]
    /\ UNCHANGED <<pc, thrown>>
    /\ CommitUnchanged

NextCommit ==
    \/ ProbeOld
    \/ DeleteOld
    \/ Probe
    \/ UpdateFile
    \/ CreateFile
    \/ NextProposal
    \/ OtherWriter

SpecCommit == InitCommit /\ [][NextCommit]_vars

(***************************************************************************)
(* buildPRContext on its own (pr-context.ts): every list of changed files  *)
(* the pull request can have, every answer of the content store.           *)
(***************************************************************************)
MaxPRFiles == 2

AllSet == [GITHUB_TOKEN |-> TRUE, GITHUB_EVENT_PATH |-> TRUE,
           pull_request |-> TRUE, GITHUB_REPOSITORY |-> TRUE]

\* a source file and the two lockfile names, in every status and with every
\* answer of the content store
ContextFile ==
    {f \in PRFile :
        f.filename \in {"lib/util.ts", "package-lock.json", "web/yarn.lock"}}

InitContext ==
    /\ pc = "buildPRContext"
    /\ env = AllSet
    /\ prFiles \in SeqsUpTo(ContextFile, MaxPRFiles)
    /\ branch = EmptyBranch
    /\ proposals = <<>>
    /\ commit = NoCommit
    /\ call = NoCall
    /\ Blank

NextContext == BuildPRContext

SpecContext == InitContext /\ [][NextContext]_vars

(***************************************************************************)
(* generateTestsForChanges on its own (test-proposals.ts): every context   *)
(* of changed files, every answer that passes testProposalsSchema.         *)
(***************************************************************************)
MaxGenFiles == 2
MaxAnswer == 1

\* z.string() accepts every string, the empty one included
AnswerFileNames ==
    {"a.test.ts", "a.test.tsx", "__tests__/unit/a.test.ts", "a.spec.ts", ""}

AnswerProposal ==
    [filename : AnswerFileNames, testContent : {"", "c1"},
     action : {"create"}, oldFilename : {""}]

Answers ==
    {ModelThrows} \cup
    [kind : {"object"}, testProposals : SeqsUpTo(AnswerProposal, MaxAnswer)]

\* changed files of every kind the classification looks at, with content
\* and without
GenFile ==
    {f \in PRFile :
        /\ f.filename \in {"lib/util.ts", "components/Box.tsx", "app/page.ts"}
        /\ \/ f.status = "removed" /\ f.fetch.kind = "notFound"
           \/ /\ f.status = "added"
              /\ f.fetch.kind = "file"
              /\ f.fetch.content \in {"plain", "react", "huge"}}

InitGen ==
    /\ pc = "generateTestsForChanges"
    /\ env = AllSet
    /\ prFiles \in SeqsUpTo(GenFile, MaxGenFiles)
    /\ branch = EmptyBranch
    /\ proposals = <<>>
    /\ commit = NoCommit
    /\ call \in [fn : {"generateTestsForChanges"}, answer : Answers]
    /\ baseContext = buildPRContext(prFiles)
    /\ testContext = [changedFiles |-> buildPRContext(prFiles).changedFiles,
                      existingTestFiles |-> EmptyBranch]
    /\ reviewAnalysis = NoReview
    /\ gating = NoGating
    /\ gateModel = NoGateModel
    /\ testBody = <<>>
    /\ hBody = <<>>
    /\ hReview = NoReview
    /\ caller = "runFlow"
    /\ lastGen = NoGen
    /\ testResult = NoResult
    /\ lastExec = None
    /\ iteration = 0
    /\ comments = [created |-> 0, review |-> <<>>, test |-> <<>>]
    /\ pushes = [prev |-> <<>>, last |-> <<>>, count |-> 0]
    /\ log = <<>>
    /\ thrown = None
    /\ exitCode = None
    /\ outcome = None

\* the model gives the answer of this call
GenerateFromAnswer == GenerateFrom({call.answer})

NextGen == GenerateFromAnswer

SpecGen == InitGen /\ [][NextGen]_vars

(***************************************************************************)
(* getAllTestFiles call by call (pr-context.ts): the recursive listing of  *)
(* "__tests__".  The stack holds one frame for each call of getAllTestFiles*)
(* that has not returned; the content store answers each getContent as it  *)
(* likes.                                                                  *)
(***************************************************************************)
MaxListingDepth == 2
MaxItems == 2

\* the entries of a directory listing: item.type and item.path; the entries
\* of a listing are drawn one by one, as the loop comes to them
ListedItem(depth) ==
    {[type |-> "file", path |-> "__tests__/unit/a.test.ts"],
     [type |-> "symlink", path |-> ""]}
        \cup {i \in {[type |-> "dir", path |-> ""]} : depth < MaxListingDepth}

\* what repos.getContent answers for a directory path: not found, another
\* error, a file (no array), or a listing of so many entries
ListingAnswers ==
    {[kind |-> "notFound", items |-> 0],
     [kind |-> "error", items |-> 0],
     [kind |-> "file", items |-> 0]}
    \cup [kind : {"listing"}, items : 0..MaxItems]

\* what it answers for a listed file, seen through getFileContent
ListedFileAnswers ==
    {[kind |-> "file", content |-> "c1"],
     [kind |-> "file", content |-> ""],
     [kind |-> "notFound", content |-> ""],
     [kind |-> "error", content |-> ""]}

\* const results = []
NewFrame == [todo |-> 0, results |-> <<>>]

\* every error is swallowed
rethrowsListingError_never(status) == FALSE

\* catch (err) { if (err.status !== 404) throw err }
rethrowsListingError(status) == status # "404"

\* the list of {filename, content} as the function the flow keeps
asExistingTestFiles(results) ==
    [f \in TestFileNames |->
        IF \E i \in 1..Len(results) : results[i].filename = f
        THEN LET i == CHOOSE k \in 1..Len(results) : results[k].filename = f
             IN results[i].content
        ELSE Absent]

InitListing ==
    /\ pc = "buildTestContext"
    /\ env = AllSet
    /\ prFiles = <<>>
    /\ branch = EmptyBranch
    /\ proposals = <<>>
    /\ commit = NoCommit
    /\ call = [fn |-> "getAllTestFiles", step |-> "list",
               stack |-> <<NewFrame>>, status |-> None,
               rootAnswer |-> None, errorDepth |-> 0, missingDepth |-> 0,
               lastItem |-> None]
    /\ Blank

ListingUnchanged ==
    UNCHANGED <<env, prFiles, branch, baseContext, reviewAnalysis, gating,
                gateModel, testBody, hBody, hReview, caller, proposals,
                lastGen, testResult, lastExec, iteration, comments, pushes,
                log, exitCode, outcome, commit>>

Depth == Len(call.stack)

Top == call.stack[Depth]

\* repos.getContent({path: dirPath}) of the innermost call
ListDirectory ==
    /\ call.step = "list"
    /\ \E ans \in ListingAnswers :
        IF ans.kind \in {"listing", "file"}
        THEN call' = [call EXCEPT
                        !.step = "items",
                        !.stack[Depth].todo = ans.items,
                        !.rootAnswer = IF Depth = 1 THEN ans.kind ELSE @]
        ELSE call' = [call EXCEPT
                        !.step = "raise",
                        !.status = IF ans.kind = "notFound" THEN "404" ELSE "500",
                        !.rootAnswer = IF Depth = 1 THEN ans.kind ELSE @,
                        !.errorDepth = IF ans.kind = "error" THEN Depth ELSE @,
                        !.missingDepth = IF ans.kind = "notFound" THEN Depth ELSE @]
    /\ UNCHANGED <<pc, thrown, testContext>>
    /\ ListingUnchanged

\* item.type === "file": getFileContent, and the push when it has a text
FetchListedFile ==
    /\ call.step = "items"
    /\ Top.todo > 0
    /\ \E item \in ListedItem(Depth), ans \in ListedFileAnswers :
        LET c == getFileContent(ans)
        IN /\ item.type = "file"
           /\ IF FetchThrows(ans)
              THEN call' = [call EXCEPT !.step = "raise", !.status = "500",
                                        !.errorDepth = Depth]
              ELSE call' = [call EXCEPT
                    !.lastItem = "file",
                    !.stack[Depth].todo = @ - 1,
                    !.stack[Depth].results =
                        IF c # None /\ c # ""
                        THEN Append(@, [filename |-> item.path,
                                        content |-> c])
                        ELSE @]
    /\ UNCHANGED <<pc, thrown, testContext>>
    /\ ListingUnchanged

\* an item that is neither a file nor a directory is passed over
SkipItem ==
    /\ call.step = "items"
    /\ Top.todo > 0
    /\ \E item \in ListedItem(Depth) :
        /\ item.type \notin {"file", "dir"}
        /\ call' = [call EXCEPT !.lastItem = item.type,
                                !.stack[Depth].todo = @ - 1]
    /\ UNCHANGED <<pc, thrown, testContext>>
    /\ ListingUnchanged

\* item.type === "dir": the recursive call
EnterDirectory ==
    /\ call.step = "items"
    /\ Top.todo > 0
    /\ \E item \in ListedItem(Depth) :
        /\ item.type = "dir"
        /\ call' = [call EXCEPT
                    !.step = "list",
                    !.lastItem = "dir",
                    !.stack = Append([@ EXCEPT ![Depth].todo = @ - 1],
                                     NewFrame)]
    /\ UNCHANGED <<pc, thrown, testContext>>
    /\ ListingUnchanged

\* return results: to the calling getAllTestFiles (results.push(...sub)), or
\* from the outermost call to buildTestContext
ReturnFromDirectory ==
    /\ call.step = "items"
    /\ Top.todo = 0
    /\ IF Depth = 1
       THEN /\ call' = [call EXCEPT !.step = "returned"]
            /\ testContext' =
                    [changedFiles |-> baseContext.changedFiles,
                     existingTestFiles |-> asExistingTestFiles(Top.results)]
            /\ pc' = "gatingStep"
            /\ UNCHANGED thrown
       ELSE /\ call' = [call EXCEPT
                    !.stack = [SubSeq(@, 1, Depth - 1) EXCEPT
                                  ![Depth - 1].results = @ \o Top.results]]
            /\ UNCHANGED <<pc, thrown, testContext>>
    /\ ListingUnchanged

\* the catch block of the innermost call
CatchListingError ==
    /\ call.step = "raise"
    /\ IF rethrowsListingError(call.status)
       THEN IF Depth = 1
            THEN /\ call' = [call EXCEPT !.step = "threw"]
                 /\ Throw("buildTestContext")
                 /\ UNCHANGED testContext
            ELSE /\ call' = [call EXCEPT !.stack = SubSeq(@, 1, Depth - 1)]
                 /\ UNCHANGED <<pc, thrown, testContext>>
       ELSE /\ call' = [call EXCEPT !.step = "items", !.status = None,
                                    !.stack[Depth].todo = 0]
            /\ UNCHANGED <<pc, thrown, testContext>>
    /\ ListingUnchanged

NextListing ==
    \/ ListDirectory
    \/ FetchListedFile
    \/ SkipItem
    \/ EnterDirectory
    \/ ReturnFromDirectory
    \/ CatchListingError

SpecListing == InitListing /\ [][NextListing]_vars

(***************************************************************************)
(* The prompts (code-review.ts, test-gating.ts, test-proposals.ts), as     *)
(* sequences of the texts they embed.  Tok("Patch:", 0, f) stands for the  *)
(* patch of file f; a "Content:" text follows the "File:" line of its file *)
(* and a "---" text follows the "Existing test:" line of its file.         *)
(***************************************************************************)
RECURSIVE changedFilesPrompt(_, _)
\* context.changedFiles.map(...).join("\n---\n")
changedFilesPrompt(changedFiles, marker) ==
    IF changedFiles = <<>> THEN <<>>
    ELSE LET f == Head(changedFiles)
         IN (IF f.excluded
             THEN <<Tok(marker, 0, f.filename)>>
             ELSE <<Tok("File:", 0, f.filename),
                    Tok("Patch:", 0, f.filename),
                    Tok("Content:", 0, IF f.content = None THEN ""
                                       ELSE f.content)>>)
            \o changedFilesPrompt(Tail(changedFiles), marker)

\* an order in which getAllTestFiles returns the files it found
TestFileOrder ==
    <<"a.test.ts", "a.test.tsx",
      "__tests__/unit/a.test.ts", "__tests__/unit/a.test.tsx">>

RECURSIVE existingTestsFrom(_, _)
existingTestsFrom(existing, names) ==
    IF names = <<>> THEN <<>>
    ELSE (IF existing[Head(names)] # Absent
          THEN <<Tok("Existing test:", 0, Head(names)),
                 Tok("---", 0, existing[Head(names)])>>
          ELSE <<>>)
         \o existingTestsFrom(existing, Tail(names))

\* context.existingTestFiles.map(...).join("\n")
existingTestsPrompt(existing) == existingTestsFrom(existing, TestFileOrder)

\* the prompt of generateReview
reviewPrompt(context) ==
    <<Tok("You are an expert code reviewer.", 0, "")>>
        \o changedFilesPrompt(context.changedFiles, "File: [EXCLUDED FROM PROMPT]")

\* the prompt of gatingStepLogic
gatePrompt(context, review) ==
    <<Tok("You are an expert in deciding if tests are needed.", 0, "")>>
        \o changedFilesPrompt(context.changedFiles, "File: [EXCLUDED]")
        \o existingTestsPrompt(context.existingTestFiles)
        \o recommendationOf(review)

\* the prompt of generateTestsForChanges
generatorPrompt(context, recommendation) ==
    <<Tok("You are an expert developer specializing in test generation.", 0, "")>>
        \o recommendation
        \o changedFilesPrompt(context.changedFiles, "File: [EXCLUDED FROM PROMPT]")
        \o existingTestsPrompt(context.existingTestFiles)

(***************************************************************************)
(* The flow up to its first call of the Proposal Generator, for pull       *)
(* requests that may change a file below the test root: what the content   *)
(* store answers for that file is what the branch holds at its path.       *)
(***************************************************************************)
MaxPromptFiles == 1

PromptFile ==
    {f \in PRFile :
        /\ f.filename \in {"lib/util.ts", "package-lock.json",
                           "__tests__/unit/a.test.ts"}
        /\ f.fetch.kind \in {"file", "notFound"}
        /\ f.fetch.kind = "file" => f.fetch.content \in {"plain", "huge"}
        /\ f.status = "removed" => f.fetch.kind = "notFound"}

\* the branch as the pull request leaves it
branchOf(files) ==
    [f \in TestFileNames |->
        IF \E i \in 1..Len(files) :
                files[i].filename = f /\ files[i].fetch.kind = "file"
        THEN LET i == CHOOSE k \in 1..Len(files) :
                        files[k].filename = f /\ files[k].fetch.kind = "file"
             IN files[i].fetch.content
        ELSE Absent]

InitPrompt ==
    /\ pc = "buildPRContext"
    /\ env = AllSet
    /\ prFiles \in SeqsUpTo(PromptFile, MaxPromptFiles)
    /\ \A i, j \in 1..Len(prFiles) :
            prFiles[i].filename = prFiles[j].filename => i = j
    /\ branch = branchOf(prFiles)
    /\ proposals = <<>>
    /\ commit = NoCommit
    /\ call = NoCall
    /\ Blank

NextPrompt ==
    \/ BuildPRContext
    \/ CreateReviewComment
    \/ HandleReviewAgent
    \/ CreateTestComment
    \/ BuildTestContext
    \/ GatingStep
    \/ AnnounceGeneration
    \/ GenerateTestsForChanges
    \/ Catch

SpecPrompt == InitPrompt /\ [][NextPrompt]_vars

(***************************************************************************)
(* The monolithic flow scripts: src/unnamed/part_001, src/unnamed/part_002,*)
(* src/scripts/ai-flow.ts and src/scripts/github-actions/ai-flow.ts.  Each *)
(* holds its own runFlow, with the Gate inside handleTestGeneration and a  *)
(* handleTestFix that calls the generator itself.  The flows start at the  *)
(* call of handleTestGeneration; call.script names the script that runs.   *)
(***************************************************************************)
Part001 == "src/unnamed/part_001"

Part002 == "src/unnamed/part_002"

ScriptsAiFlow == "src/scripts/ai-flow.ts"

ActionsAiFlow == "src/scripts/github-actions/ai-flow.ts"

\* part_002 keeps one test comment and updates it; the other scripts create
\* a placeholder comment per handler and post the final report as a new one
usesPlaceholder(s) == s # Part002

\* runLocalTests of github-actions/ai-flow.ts, line 745
allPassed(result) == ~result.jestFailed /\ ~result.pwFailed

\* the loop condition of each runFlow
scriptWhileCondition(s, result, iter) ==
    IF s = Part001 THEN ~result.jestFailed /\ iter < maxIterations
    ELSE IF s = ActionsAiFlow THEN ~allPassed(result) /\ iter < maxIterations
    ELSE result.jestFailed /\ iter < maxIterations

\* the condition of the final report of each runFlow
scriptReportsSuccess(s, result) ==
    IF s = ActionsAiFlow THEN allPassed(result) ELSE ~result.jestFailed

\* github-actions/ai-flow.ts posts the report and returns; the other scripts
\* call process.exit after the report
exitsAfterReport(s) == s # ActionsAiFlow

\* the scripts that read the output of the test command
capturesOutput(s) == s \in {Part002, ScriptsAiFlow}

\* what the two test commands did; only github-actions/ai-flow.ts runs the
\* second command
ScriptExecResults(s) ==
    [unit : {"exitZero", "exitNonZero"},
     e2e : IF s = ActionsAiFlow THEN {"exitZero", "exitNonZero"}
           ELSE {"notRun"}]

scriptRunLocalTests(s, exec) ==
    [jestFailed |-> exec.unit = "exitNonZero",
     pwFailed |-> exec.e2e = "exitNonZero",
     output |-> IF ~capturesOutput(s) THEN ""
                ELSE IF exec.unit = "exitZero" THEN "ok" ELSE "e1"]

\* what generateTestsForChanges returns in a script: finished proposals, and
\* none when the model call or the parsing failed
ScriptProposal ==
    {p \in RawProposal :
        /\ p.filename = "__tests__/unit/a.test.ts"
        /\ p.testContent = "c2"
        /\ p.action = "create"}

\* handleTestFix: the prompt of a fix attempt
scriptFixPrompt(s, iter, testErrorOutput) ==
    IF capturesOutput(s)
    THEN <<Tok("We have failing tests (attempt #", iter, ""),
           Tok("Here is the error output:", 0, testErrorOutput)>>
    ELSE <<Tok("We have failing tests. Attempt #", iter, "")>>

\* handleTestGeneration: let combinedRec = gating.recommendation, then the
\* review summary
combinedRec(g, review) ==
    <<Tok("", 0, g.recommendation)>> \o recommendationOf(review)

\* the comment channel after a body was posted as a new comment or written
\* to the existing one
Posted(c, p, body, new) ==
    [comments |-> IF new THEN [c EXCEPT !.created = @ + 1, !.test = body]
                  ELSE [c EXCEPT !.test = body],
     pushes |-> [prev |-> p.last, last |-> body, count |-> p.count + 1]]

InitScript ==
    /\ pc = "handleTestGeneration"
    /\ call \in [fn : {"runFlow"},
                  script : {Part001, Part002, ScriptsAiFlow, ActionsAiFlow}]
    /\ env = AllSet
    /\ prFiles = <<>>
    /\ branch \in InitialBranches
    /\ proposals = <<>>
    /\ commit = NoCommit
    /\ baseContext = NoContext
    /\ testContext = [changedFiles |-> <<>>, existingTestFiles |-> branch]
    /\ reviewAnalysis \in {NoReview, [defined |-> TRUE, summary |-> "s1"]}
    /\ gating = NoGating
    /\ gateModel = NoGateModel
    /\ testBody = IF call.script = Part002
                  THEN <<Tok("### AI Test Generation", 0, "")>>
                  ELSE <<>>
    /\ hBody = <<>>
    /\ hReview = NoReview
    /\ caller = "runFlow"
    /\ lastGen = NoGen
    /\ testResult = [jestFailed |-> FALSE, pwFailed |-> FALSE,
                     output |-> None]
    /\ lastExec = None
    /\ iteration = 0
    /\ comments = [created |-> IF call.script = Part002 THEN 2 ELSE 1,
                   review |-> <<>>, test |-> testBody]
    /\ pushes = [prev |-> <<>>, last |-> <<>>, count |-> 0]
    /\ log = <<>>
    /\ thrown = None
    /\ exitCode = None
    /\ outcome = None

\* what no step of a script changes
ScriptFixed ==
    UNCHANGED <<env, prFiles, baseContext, testContext, reviewAnalysis,
                hReview, lastExec, commit, call>>

\* handleTestGeneration up to the generator call: the first comment, the
\* Gate, and the return when the Gate says no
ScriptHandleTestGeneration ==
    /\ pc = "handleTestGeneration"
    /\ \E api1Ok \in BOOLEAN, setupOk \in BOOLEAN, api2Ok \in BOOLEAN,
          res \in GateModelResults :
        LET s == call.script
            g == gatingStepLogic(res)
            body1 == IF usesPlaceholder(s)
                     THEN <<Tok("AI Test Generation in progress...", 0, "")>>
                     ELSE testBody \o <<Tok("**Gating Step**", 0, "")>>
            skipBody == IF usesPlaceholder(s)
                        THEN <<Tok("Skipping test generation:", 0, g.reason)>>
                        ELSE body1
                             \o <<Tok("Skipping test generation:", 0,
                                      g.reason)>>
            genBody == body1 \o <<Tok("**Generating Tests**...", 0, "")>>
            after1 == Posted(comments, pushes, body1, usesPlaceholder(s))
            afterSkip == Posted(after1.comments, after1.pushes, skipBody, FALSE)
            afterGen == Posted(after1.comments, after1.pushes, genBody, FALSE)
        IN /\ caller' = "handleTestGeneration"
           /\ IF ~api1Ok
              THEN /\ Throw(IF usesPlaceholder(s) THEN "createComment"
                            ELSE "updateComment")
                   /\ UNCHANGED <<comments, pushes, gating, gateModel, hBody>>
              ELSE IF ~setupOk
              THEN /\ Throw("getLLMModel")
                   /\ comments' = after1.comments
                   /\ pushes' = after1.pushes
                   /\ hBody' = body1
                   /\ UNCHANGED <<gating, gateModel>>
              ELSE /\ gateModel' = [kind |-> res.kind,
                                    shouldGenerate |-> g.shouldGenerate,
                                    recommendation |-> g.recommendation]
                   /\ gating' = g
                   /\ IF ~g.shouldGenerate
                      THEN IF ~api2Ok
                           THEN /\ Throw("updateComment")
                                /\ comments' = after1.comments
                                /\ pushes' = after1.pushes
                                /\ hBody' = skipBody
                           ELSE /\ pc' = "runLocalTests"
                                /\ comments' = afterSkip.comments
                                /\ pushes' = afterSkip.pushes
                                /\ hBody' = <<>>
                                /\ UNCHANGED thrown
                      ELSE IF usesPlaceholder(s)
                      THEN /\ pc' = "generateTestsForChanges"
                           /\ comments' = after1.comments
                           /\ pushes' = after1.pushes
                           /\ hBody' = body1
                           /\ UNCHANGED thrown
                      ELSE IF ~api2Ok
                      THEN /\ Throw("updateComment")
                           /\ comments' = after1.comments
                           /\ pushes' = after1.pushes
                           /\ hBody' = genBody
                      ELSE /\ pc' = "generateTestsForChanges"
                           /\ comments' = afterGen.comments
                           /\ pushes' = afterGen.pushes
                           /\ hBody' = genBody
                           /\ UNCHANGED thrown
    /\ UNCHANGED <<branch, testBody, proposals, lastGen, testResult, iteration,
                   log, exitCode, outcome>>
    /\ ScriptFixed

\* generateTestsForChanges, called by handleTestGeneration or handleTestFix
ScriptGenerate ==
    /\ pc = "generateTestsForChanges"
    /\ \E setupOk \in BOOLEAN,
          result \in SeqsUpTo(ScriptProposal, MaxProposals) :
        /\ lastGen' = [kind |-> caller,
                       model |-> IF setupOk THEN "object" ELSE None,
                       recommendation |->
                           IF caller = "handleTestFix"
                           THEN scriptFixPrompt(call.script, iteration,
                                                testResult.output)
                           ELSE combinedRec(gating, reviewAnalysis),
                       existingTestFiles |-> testContext.existingTestFiles]
        /\ log' = Append(log, Event("generate", caller = "handleTestFix",
                                    setupOk,
                                    IF setupOk THEN Len(result) ELSE 0))
        /\ IF ~setupOk
           THEN /\ Throw("getLLMModel")
                /\ UNCHANGED proposals
           ELSE /\ proposals' = result
                /\ pc' = IF Len(result) > 0 THEN "commitTests" ELSE "report"
                /\ UNCHANGED thrown
    /\ UNCHANGED <<branch, gating, gateModel, testBody, hBody, caller,
                   testResult, iteration, comments, pushes, exitCode, outcome>>
    /\ ScriptFixed

\* commitTests, called by handleTestGeneration or handleTestFix
ScriptCommitTests ==
    /\ pc = "commitTests"
    /\ \E failAt \in 0..Len(proposals), fault \in Faults :
        LET r == commitTests(branch, proposals, failAt, fault)
        IN /\ branch' = r.branch
           /\ log' = Append(log, Event("commit", caller = "handleTestFix",
                                       ~r.threw, Len(proposals)))
           /\ IF r.threw
              THEN Throw("commitTests")
              ELSE /\ pc' = "report"
                   /\ UNCHANGED thrown
    /\ UNCHANGED <<gating, gateModel, testBody, hBody, caller, proposals,
                   lastGen, testResult, iteration, comments, pushes, exitCode,
                   outcome>>
    /\ ScriptFixed

\* the end of handleTestGeneration and of handleTestFix: the comment gets the
\* list of proposals
ScriptReport ==
    /\ pc = "report"
    /\ \E apiOk \in BOOLEAN :
        LET s == call.script
            head == IF Len(proposals) = 0
                    THEN <<Tok("No new test proposals from AI.", 0, "")>>
                    ELSE IF ~usesPlaceholder(s) /\ caller = "handleTestFix"
                    THEN <<Tok("**Proposed Fixes**", 0, "")>>
                         \o FileLines(proposals)
                    ELSE <<Tok("**Proposed new/updated tests:**", 0, "")>>
                         \o FileLines(proposals)
            body == IF usesPlaceholder(s) THEN head ELSE hBody \o head
            after == Posted(comments, pushes, body, FALSE)
        IN IF ~apiOk
           THEN /\ Throw("updateComment")
                /\ hBody' = body
                /\ UNCHANGED <<comments, pushes, proposals>>
           ELSE /\ comments' = after.comments
                /\ pushes' = after.pushes
                /\ hBody' = <<>>
                /\ proposals' = <<>>
                /\ pc' = "runLocalTests"
                /\ UNCHANGED thrown
    /\ UNCHANGED <<branch, gating, gateModel, testBody, caller, lastGen,
                   testResult, iteration, log, exitCode, outcome>>
    /\ ScriptFixed

\* runLocalTests() of runFlow, before the loop and at the end of its body
ScriptRunLocalTests ==
    /\ pc = "runLocalTests"
    /\ \E exec \in ScriptExecResults(call.script) :
        LET result == scriptRunLocalTests(call.script, exec)
        IN /\ testResult' = result
           /\ log' = Append(log, Event("test", caller = "handleTestFix",
                                       allPassed(result), 0))
    /\ pc' = "while"
    /\ UNCHANGED <<branch, gating, gateModel, testBody, hBody, caller,
                   proposals, lastGen, iteration, comments, pushes, thrown,
                   exitCode, outcome>>
    /\ ScriptFixed

\* the loop of runFlow is entered: iteration++ and handleTestFix up to its
\* generator call
ScriptStartFix ==
    /\ pc = "while"
    /\ scriptWhileCondition(call.script, testResult, iteration)
    /\ \E apiOk \in BOOLEAN :
        LET s == call.script
            body == IF usesPlaceholder(s)
                    THEN <<Tok("AI Test Fix in progress #", iteration + 1, "")>>
                    ELSE testBody
                         \o <<Tok("**Test Fix #", iteration + 1, "")>>
            after == Posted(comments, pushes, body, usesPlaceholder(s))
        IN /\ iteration' = iteration + 1
           /\ testBody' = IF usesPlaceholder(s) THEN testBody ELSE body
           /\ IF ~apiOk
              THEN /\ Throw(IF usesPlaceholder(s) THEN "createComment"
                            ELSE "updateComment")
                   /\ UNCHANGED <<comments, pushes, hBody, caller>>
              ELSE /\ comments' = after.comments
                   /\ pushes' = after.pushes
                   /\ hBody' = IF usesPlaceholder(s) THEN <<>> ELSE body
                   /\ caller' = "handleTestFix"
                   /\ pc' = "generateTestsForChanges"
                   /\ UNCHANGED thrown
    /\ UNCHANGED <<branch, gating, gateModel, proposals, lastGen, testResult,
                   log, exitCode, outcome>>
    /\ ScriptFixed

\* the statement after the loop: the final report, and the exit of the
\* scripts that exit there
ScriptFinalReport ==
    /\ pc = "while"
    /\ ~scriptWhileCondition(call.script, testResult, iteration)
    /\ \E apiOk \in BOOLEAN :
        LET s == call.script
            passed == scriptReportsSuccess(s, testResult)
            line == IF passed THEN <<Tok("All tests passing", 0, "")>>
                    ELSE <<Tok("Tests failing after fix attempts:",
                               maxIterations, "")>>
            body == IF usesPlaceholder(s) THEN line ELSE testBody \o line
            after == Posted(comments, pushes, body, usesPlaceholder(s))
            reported == IF passed THEN "success" ELSE "exhausted"
        IN /\ testBody' = IF usesPlaceholder(s) THEN testBody ELSE body
           /\ IF ~apiOk
              THEN /\ Throw(IF usesPlaceholder(s) THEN "postComment"
                            ELSE "updateComment")
                   /\ UNCHANGED <<comments, pushes, exitCode, outcome>>
              ELSE /\ comments' = after.comments
                   /\ pushes' = after.pushes
                   /\ UNCHANGED thrown
                   /\ IF exitsAfterReport(s)
                      THEN Exit(IF passed THEN 0 ELSE 1, reported)
                      ELSE /\ pc' = "returned"
                           /\ outcome' = reported
                           /\ UNCHANGED exitCode
    /\ UNCHANGED <<branch, gating, gateModel, hBody, caller, proposals,
                   lastGen, testResult, iteration, log>>
    /\ ScriptFixed

\* runFlow returned: the .then handler of the entry point of
\* github-actions/ai-flow.ts, line 805: .then(() => process.exit(0))
ScriptThen ==
    /\ pc = "returned"
    /\ pc' = "done"
    /\ exitCode' = 0
    /\ UNCHANGED <<branch, gating, gateModel, testBody, hBody, caller,
                   proposals, lastGen, testResult, iteration, comments, pushes,
                   log, thrown, outcome>>
    /\ ScriptFixed

\* runFlow threw: the .catch handler of the entry point
ScriptCatch ==
    /\ pc = "thrown"
    /\ Exit(1, "fatal")
    /\ UNCHANGED <<branch, gating, gateModel, testBody, hBody, caller,
                   proposals, lastGen, testResult, iteration, comments, pushes,
                   log, thrown>>
    /\ ScriptFixed

NextScript ==
    \/ ScriptHandleTestGeneration
    \/ ScriptGenerate
    \/ ScriptCommitTests
    \/ ScriptReport
    \/ ScriptRunLocalTests
    \/ ScriptStartFix
    \/ ScriptFinalReport
    \/ ScriptThen
    \/ ScriptCatch

SpecScript == InitScript /\ [][NextScript]_vars

(***************************************************************************)
(* Vocabulary of the properties.                                           *)
(***************************************************************************)
Indices(t) == {i \in 1..Len(log) : log[i].t = t}

FixCalls == {i \in Indices("generate") : log[i].fix}

TestRuns == Indices("test")

RECURSIVE Verdicts(_)
\* the pass/fail verdicts of the test runs of a history, in order
Verdicts(h) ==
    IF h = <<>> THEN <<>>
    ELSE IF Head(h).t = "test" THEN <<Head(h).ok>> \o Verdicts(Tail(h))
    ELSE Verdicts(Tail(h))

Finished == pc = "done"

NoError == thrown = None

GateReturned == gateModel.kind # None

TestsRan == testResult.output # None

SkipText == Tok("Skipping test generation:", 0, gating.reason)

ErrorOutputText == Tok("Here is the error output:", 0, testResult.output)

(***************************************************************************)
(* C1: when every test run fails (and no external call throws), the flow   *)
(* ends after exactly 3 fix calls to the Proposal Generator and exactly 4  *)
(* test runs, reports the exhausted outcome and exits with status 1; no    *)
(* run ever makes more than 3 fix calls or 4 test runs.                    *)
(***************************************************************************)
C1_AlwaysFailingRunsThreeFixes ==
    /\ Cardinality(FixCalls) <= 3
    /\ Cardinality(TestRuns) <= 4
    /\ (Finished /\ NoError /\ TestsRan
            /\ \A i \in TestRuns : ~log[i].ok)
        => /\ Cardinality(FixCalls) = 3
           /\ Cardinality(TestRuns) = 4
           /\ iteration = 3
           /\ Contains(comments.test,
                       Tok("Tests failing after fix attempts:", 3, ""))
           /\ exitCode = 1

C1_Witness ==
    /\ Finished /\ NoError
    /\ Verdicts(log) = <<FALSE, FALSE, FALSE, FALSE>>
    /\ exitCode = 1

(***************************************************************************)
(* C2: a fix call to the Proposal Generator comes only immediately after a *)
(* failing test run, a fix commit only immediately after its fix call; a   *)
(* passing test run is the last generation, commit or test run of the      *)
(* flow, and the flow then reports success.                                *)
(***************************************************************************)
C2_FixOnlyAfterFailingRun ==
    /\ \A i \in 1..Len(log) :
        /\ (log[i].t = "generate" /\ log[i].fix)
            => i > 1 /\ log[i-1].t = "test" /\ ~log[i-1].ok
        /\ (log[i].t = "commit" /\ log[i].fix)
            => i > 1 /\ log[i-1].t = "generate" /\ log[i-1].fix
        /\ (log[i].t = "test" /\ log[i].ok) => i = Len(log)
    /\ (Finished /\ NoError /\ TestsRan /\ ~testResult.jestFailed)
        => /\ Contains(comments.test, Tok("All tests passing", 0, ""))
           /\ outcome = "success"

C2_Witness ==
    /\ Finished /\ NoError
    /\ Verdicts(log) = <<FALSE, FALSE, TRUE>>
    /\ Cardinality(FixCalls) = 2
    /\ outcome = "success"

(***************************************************************************)
(* C3: when the first test run fails and the second passes (and no         *)
(* external call throws), the flow makes exactly one fix iteration,        *)
(* reports success and exits with status 0.                                *)
(***************************************************************************)
C3_FailThenPassOneFix ==
    (Finished /\ NoError /\ Verdicts(log) = <<FALSE, TRUE>>)
        => /\ iteration = 1
           /\ Cardinality(FixCalls) = 1
           /\ Contains(comments.test, Tok("**Test Fix #", 1, ""))
           /\ Contains(comments.test, Tok("All tests passing", 0, ""))
           /\ exitCode = 0

C3_Witness ==
    /\ Finished /\ NoError
    /\ Verdicts(log) = <<FALSE, TRUE>>
    /\ exitCode = 0

(***************************************************************************)
(* C4: once the Gate has returned shouldGenerate = false there is no       *)
(* Proposal Generator call, no commit and no test run, the branch is as it *)
(* was, and a flow that ends without a thrown error has posted the skip    *)
(* text and exits with status 0.                                           *)
(***************************************************************************)
C4_GateFalseSkips ==
    (GateReturned /\ ~gateModel.shouldGenerate)
        => /\ log = <<>>
           /\ branch \in InitialBranches
           /\ pc \in {"thrown", "done"}
           /\ (Finished /\ NoError)
                => /\ Contains(comments.test, SkipText)
                   /\ exitCode = 0

C4_Witness ==
    /\ Finished /\ NoError
    /\ gateModel.kind = "object" /\ ~gateModel.shouldGenerate
    /\ exitCode = 0

(***************************************************************************)
(* C5: when the Gate's model call throws, the Gate returns                 *)
(* shouldGenerate = false, and so does gatingStep.                         *)
(***************************************************************************)
C5_GateFailsClosed ==
    gateModel.kind = "throws"
        => /\ ~gateModel.shouldGenerate
           /\ ~gating.shouldGenerate
           /\ pc # "handleTestGeneration"

C5_Witness ==
    /\ gateModel.kind = "throws"
    /\ Finished /\ NoError
    /\ gating.reason = "Gating error"

(***************************************************************************)
(* C6: for a flow that passed the startup checks, the exit status is 0     *)
(* exactly when it ended after a passing test run or after a Gate skip     *)
(* without a thrown error, and 1 exactly when it ended after 3 fix         *)
(* iterations with the tests still failing or with a thrown error.         *)
(***************************************************************************)
EndedInSuccess == NoError /\ TestsRan /\ ~testResult.jestFailed

EndedInSkip == NoError /\ GateReturned /\ ~gateModel.shouldGenerate

EndedExhausted ==
    NoError /\ TestsRan /\ testResult.jestFailed /\ iteration = maxIterations

EndedInHardFailure == ~NoError

C6_ExitStatusReflectsOutcome ==
    (Finished /\ outcome \notin {"noop", "noToken"})
        => /\ exitCode = 0 <=> (EndedInSuccess \/ EndedInSkip)
           /\ exitCode = 1 <=> (EndedExhausted \/ EndedInHardFailure)

C6_Witness ==
    /\ Finished
    /\ EndedInHardFailure
    /\ thrown = "updateComment"
    /\ TestsRan /\ ~testResult.jestFailed
    /\ exitCode = 1

(***************************************************************************)
(* C7: in a fix iteration the recommendation given to                      *)
(* generateTestsForChanges contains the output of the latest test run.     *)
(* (Between the generator call and the next test run, testResult is still  *)
(* the latest run.)                                                        *)
(***************************************************************************)
C7_FixRecommendationHasLatestOutput ==
    (lastGen.kind = "handleTestFix"
        /\ pc \in {"commitTests", "reportGeneration"})
        => Contains(lastGen.recommendation, ErrorOutputText)

(***************************************************************************)
(* C8: in a fix iteration the existing test files given to                 *)
(* generateTestsForChanges are the test files of the branch at the time of *)
(* the call.  (Before the commit of the same iteration the branch is still *)
(* as it was at the call.)                                                 *)
(***************************************************************************)
C8_FixSeesLatestCommittedTests ==
    (lastGen.kind = "handleTestFix" /\ pc = "commitTests")
        => lastGen.existingTestFiles = getAllTestFiles(branch)

(***************************************************************************)
(* C9: a commit that threw is the last generator call, commit or test run  *)
(* of the flow: the error propagates, nothing is retried, and the process  *)
(* exits with status 1.                                                    *)
(***************************************************************************)
C9_CommitErrorIsFatal ==
    \A i \in Indices("commit") :
        ~log[i].ok
            => /\ i = Len(log)
               /\ thrown = "commitTests"
               /\ pc \in {"thrown", "done"}
               /\ Finished => exitCode = 1

C9_Witness ==
    /\ Finished
    /\ thrown = "commitTests"
    /\ log # <<>>
    /\ log[Len(log)].t = "commit"
    /\ log[Len(log)].fix
    /\ ~log[Len(log)].ok
    /\ exitCode = 1

(***************************************************************************)
(* C10: when the test command cannot be run at all, the error propagates   *)
(* as a fatal error: the run is not reported as a failing test run and no  *)
(* fix iteration follows.                                                  *)
(***************************************************************************)
C10_RunnerCrashIsFatal ==
    lastExec = "spawnError"
        => /\ ~NoError
           /\ pc \in {"thrown", "done"}
           /\ log[Len(log)].t = "test"

(***************************************************************************)
(* C11: no failure inside the Review Producer, the Gate or the Proposal    *)
(* Generator (model provider setup, model call, parsing, validation)       *)
(* reaches the flow controller: none of them lets the error of             *)
(* getLLMModel propagate.                                                  *)
(***************************************************************************)
C11_NoModelFailureEscapes == thrown # "getLLMModel"

(***************************************************************************)
(* C12: a generator call that returned an empty list is followed by no     *)
(* commit: the next generator call, commit or test run after it is a test  *)
(* run, and until then the only error that can end the flow is that of the *)
(* comment update.                                                         *)
(***************************************************************************)
C12_EmptyProposalsNoCommit ==
    \A i \in Indices("generate") :
        (log[i].ok /\ log[i].n = 0)
            => /\ i < Len(log) => log[i+1].t = "test"
               /\ i = Len(log)
                    => /\ thrown \in {None, "updateComment"}
                       /\ pc \in {"reportGeneration", "runLocalTests",
                                  "thrown", "done"}
                       /\ (pc = "runLocalTests" /\ Len(pushes.last) > 0)
                            => pushes.last[Len(pushes.last)] =
                                   Tok("No new test proposals from AI.", 0, "")

C12_Witness ==
    /\ lastGen.model = "throws"
    /\ Len(log) >= 2
    /\ log[Len(log) - 1].t = "generate"
    /\ log[Len(log) - 1].n = 0
    /\ log[Len(log)].t = "test"
    /\ NoError

C14_TestCommentOnlyAppends == IsPrefix(pushes.prev, pushes.last)

(***************************************************************************)
(* C15: the text that reports skip, success or exhausted retries is in no  *)
(* body pushed before the flow has ended; a flow that ends in one of these *)
(* outcomes has pushed it in its last update, and in that update only,     *)
(* and the comment shows the text of that outcome and of no other.         *)
(***************************************************************************)
HasText(body, t) == \E i \in 1..Len(body) : body[i].t = t

OutcomeTexts ==
    {"Skipping test generation:", "All tests passing",
     "Tests failing after fix attempts:"}

ReportsOutcome(body) == {t \in OutcomeTexts : HasText(body, t)}

C15_OneReportPerTerminalState ==
    /\ ReportsOutcome(pushes.prev) = {}
    /\ ~(Finished /\ NoError) => ReportsOutcome(pushes.last) = {}
    /\ (Finished /\ EndedInSkip)
        => /\ ReportsOutcome(pushes.last) = {"Skipping test generation:"}
           /\ comments.test = pushes.last
    /\ (Finished /\ EndedInSuccess)
        => /\ ReportsOutcome(pushes.last) = {"All tests passing"}
           /\ comments.test = pushes.last
    /\ (Finished /\ EndedExhausted)
        => /\ ReportsOutcome(pushes.last) =
                  {"Tests failing after fix attempts:"}
           /\ comments.test = pushes.last

C15_Witness ==
    /\ Finished /\ EndedInSkip
    /\ gateModel.kind = "object"
    /\ HasText(comments.test, "Skipping test generation:")

(***************************************************************************)
(* C16: when a Context Builder step (buildPRContext or buildTestContext)   *)
(* throws, no comment has been created or updated in the invocation.       *)
(***************************************************************************)
C16_ContextFailureLeavesNoComment ==
    thrown \in {"buildPRContext", "buildTestContext"}
        => /\ comments.created = 0
           /\ comments.review = <<>>
           /\ pushes.count = 0

(***************************************************************************)
(* Vocabulary of the commitTests properties (SpecCommit).                  *)
(***************************************************************************)
Current == proposals[commit.idx]

\* commitTests is the only writer of the branch
SingleWriter == ~commit.concurrent

\* a later proposal of the batch names the path again
TouchedLater(i) ==
    \E j \in (i + 1)..Len(proposals) :
        \/ proposals[j].filename = proposals[i].filename
        \/ isRename(proposals[j]) /\ proposals[j].oldFilename = proposals[i].filename

(***************************************************************************)
(* C17: once a rename proposal has been applied without error, the old     *)
(* path is absent and the new path holds the proposal's content, whether   *)
(* or not the old path existed before.                                     *)
(***************************************************************************)
C17_RenameMovesContent ==
    (SingleWriter /\ commit.step = "applied" /\ isRename(Current))
        => /\ branch[Current.oldFilename] = Absent
           /\ branch[Current.filename] = Current.testContent

(***************************************************************************)
(* C18: with commitTests as the only writer, applying the same update      *)
(* proposal a second time leaves the branch as the first application left  *)
(* it, and the second application is not refused for a stale revision.     *)
(***************************************************************************)
AppliedTwice ==
    /\ SingleWriter
    /\ commit.idx >= 2
    /\ commit.idx <= Len(proposals)
    /\ Current = proposals[commit.idx - 1]
    /\ Current.action = "update"

C18_SecondUpdateIsIdempotent ==
    AppliedTwice
        => /\ commit.step = "applied" => branch = commit.afterPrevious
           /\ commit.step = "threw" => commit.error \notin {"409", "422"}

C18_Witness ==
    /\ AppliedTwice
    /\ commit.step = "applied"
    /\ commit.initial[Current.filename] = "c1"
    /\ Current.testContent = "c2"
    /\ branch[Current.filename] = "c2"

(***************************************************************************)
(* C19: with commitTests as the only writer, once it has returned, every   *)
(* create or update proposal whose path no later proposal names has its    *)
(* content stored at its filename.                                         *)
(***************************************************************************)
C19_ReturnedMeansStored ==
    (SingleWriter /\ commit.step = "returned")
        => \A i \in 1..Len(proposals) :
            (proposals[i].action \in {"create", "update"} /\ ~TouchedLater(i))
                => branch[proposals[i].filename] = proposals[i].testContent

(***************************************************************************)
(* C20: when another writer changes a path between its probe and the write *)
(* that uses the probe, the write is refused, the error leaves commitTests *)
(* without a retry, and the other writer's content stays at the path.      *)
(***************************************************************************)
C20_RaceIsFatalAndKeepsOtherContent ==
    commit.raced # None
        => /\ branch[commit.raced] = WriterContent
           /\ commit.step \in {"deleteOld", "update", "create", "threw"}
           /\ commit.step = "threw"
                => /\ commit.error \in {"409", "422", "500"}
                   /\ pc = "thrown"
                   /\ thrown = "commitTests"

C20_Witness ==
    /\ commit.step = "threw"
    /\ commit.raced = Current.filename
    /\ commit.error = "409"
    /\ commit.initial[Current.filename] = "c1"
    /\ branch[Current.filename] = WriterContent

(***************************************************************************)
(* Vocabulary of the startup properties.                                   *)
(***************************************************************************)
\* no repository, comment, model or test-run call has been made
NothingCalled ==
    /\ baseContext = NoContext
    /\ testContext = NoTestContext
    /\ reviewAnalysis = NoReview
    /\ gateModel = NoGateModel
    /\ lastGen = NoGen
    /\ proposals = <<>>
    /\ testResult = NoResult
    /\ comments = [created |-> 0, review |-> <<>>, test |-> <<>>]
    /\ pushes.count = 0
    /\ log = <<>>
    /\ thrown = None

(***************************************************************************)
(* C28: without the repository credential the flow ends with exit status 1 *)
(* and no repository, comment, model or test-run call has been made.       *)
(***************************************************************************)
C28_NoTokenExitsOneBeforeAnyCall ==
    ~env.GITHUB_TOKEN
        => /\ pc \in {"start", "done"}
           /\ NothingCalled
           /\ Finished => exitCode = 1

C28_Witness ==
    /\ Finished
    /\ ~env.GITHUB_TOKEN
    /\ env.GITHUB_EVENT_PATH /\ env.pull_request /\ env.GITHUB_REPOSITORY
    /\ exitCode = 1

(***************************************************************************)
(* C29: when the credential is there and the event carries no pull request *)
(* the flow returns with a success exit and no comment, commit, model call *)
(* or test run has been made.                                              *)
(***************************************************************************)
C29_NoPullRequestIsNoop ==
    (env.GITHUB_TOKEN /\ ~env.pull_request)
        => /\ pc \in {"start", "done"}
           /\ NothingCalled
           /\ Finished => /\ exitCode = 0
                          /\ outcome = "noop"

C29_Witness ==
    /\ Finished
    /\ env.GITHUB_TOKEN /\ env.GITHUB_EVENT_PATH /\ env.GITHUB_REPOSITORY
    /\ ~env.pull_request
    /\ exitCode = 0

(***************************************************************************)
(* C30: the iteration counter starts at 0, stays within 0..maxIterations,  *)
(* and changes only by +1, at the start of a fix iteration.                *)
(***************************************************************************)
C30_IterationCounter ==
    /\ iteration = 0
    /\ [](iteration \in 0..maxIterations)
    /\ [][\/ iteration' = iteration
          \/ /\ iteration' = iteration + 1
             /\ pc = "while"
             /\ pc' \in {"handleTestFix", "thrown"}]_vars

C30_Witness ==
    /\ iteration = maxIterations
    /\ pc = "handleTestFix"

(***************************************************************************)
(* Vocabulary of the Context Builder properties (SpecContext).             *)
(***************************************************************************)
\* buildPRContext has returned its context
ContextReturned == pc = "createReviewComment"

IsLockfile(f) == f \in {"package-lock.json", "web/yarn.lock"}

\* the content store has a text of more than 32000 characters for the file
FetchedTooLong(file) ==
    file.fetch.kind = "file" /\ ContentLength(file.fetch.content) > 32000

\* buildPRContext asks the content store for the file
IsFetched(file) == file.status # "removed" /\ ~IsLockfile(file.filename)

(***************************************************************************)
(* C24: in a context returned by buildPRContext every changed file that is *)
(* removed, or named like a lockfile, or whose fetched content is longer   *)
(* than 32000 characters, has excluded = true and no content.              *)
(***************************************************************************)
C24_ExcludedFilesCarryNoContent ==
    ContextReturned
        => /\ Len(baseContext.changedFiles) = Len(prFiles)
           /\ \A i \in 1..Len(prFiles) :
                (\/ prFiles[i].status = "removed"
                 \/ IsLockfile(prFiles[i].filename)
                 \/ FetchedTooLong(prFiles[i]))
                    => /\ baseContext.changedFiles[i].filename = prFiles[i].filename
                       /\ baseContext.changedFiles[i].excluded
                       /\ baseContext.changedFiles[i].content = None

C24_Witness ==
    /\ ContextReturned
    /\ Len(prFiles) = 2
    /\ IsLockfile(prFiles[1].filename)
    /\ prFiles[1].status = "added"
    /\ prFiles[1].fetch = [kind |-> "file", content |-> "plain"]
    /\ ~IsLockfile(prFiles[2].filename)
    /\ prFiles[2].status = "added"
    /\ FetchedTooLong(prFiles[2])
    /\ baseContext.changedFiles[2].excluded

(***************************************************************************)
(* C25: a content fetch answered "not found" is no error: the context is   *)
(* returned and the file has no content; any other error of a fetch makes  *)
(* buildPRContext throw, and no context is returned.                       *)
(***************************************************************************)
C25_NotFoundToleratedOtherErrorsAbort ==
    /\ (\E i \in 1..Len(prFiles) :
            IsFetched(prFiles[i]) /\ prFiles[i].fetch.kind = "error")
        => /\ ~ContextReturned
           /\ baseContext = NoContext
           /\ pc = "thrown" => thrown = "buildPRContext"
    /\ ContextReturned
        => \A i \in 1..Len(prFiles) :
            (IsFetched(prFiles[i]) /\ prFiles[i].fetch.kind = "notFound")
                => baseContext.changedFiles[i].content = None
    /\ pc = "thrown" => baseContext = NoContext

C25_Witness ==
    /\ ContextReturned
    /\ Len(prFiles) = 2
    /\ IsFetched(prFiles[1])
    /\ prFiles[1].fetch.kind = "notFound"
    /\ baseContext.changedFiles[1].content = None
    /\ baseContext.changedFiles[2].content = "plain"

(***************************************************************************)
(* Vocabulary of the Proposal Generator properties (SpecGen).              *)
(***************************************************************************)
\* generateTestsForChanges has returned its list to handleTestGeneration
GeneratorReturned == pc \in {"commitTests", "reportGeneration"}

\* the list is passed to commitTests
PassedToCommit == pc = "commitTests"

\* some changed file has a name ending in .tsx, or a content with a React
\* import, or a name under app/
ClaimedUI ==
    \E i \in 1..Len(prFiles) :
        \/ endsWithTsx(prFiles[i].filename)
        \/ includesAppDir(prFiles[i].filename)
        \/ /\ prFiles[i].status # "removed"
           /\ prFiles[i].fetch.kind = "file"
           /\ includesReactImport(prFiles[i].fetch.content)

(***************************************************************************)
(* C21: no proposal with an empty filename or an empty content is in the   *)
(* list the generator returns, nor in the list passed to commitTests.      *)
(***************************************************************************)
C21_EmptyProposalsDropped ==
    GeneratorReturned
        => \A i \in 1..Len(proposals) :
            /\ proposals[i].testContent # ""
            /\ proposals[i].filename \notin {"", "__tests__/unit/"}

(***************************************************************************)
(* C22: every returned proposal's filename ends in .test.tsx when the      *)
(* changed files were detected as React code, in .test.ts otherwise.       *)
(***************************************************************************)
C22_ExtensionMatchesDetectedKind ==
    GeneratorReturned
        => \A i \in 1..Len(proposals) :
            IF isReact(testContext.changedFiles)
            THEN endsWithTestTsx(proposals[i].filename)
            ELSE endsWithTestTs(proposals[i].filename)

(***************************************************************************)
(* C23: the batch is normalised toward .test.tsx exactly when some changed *)
(* file has a .tsx name, a React import in its content, or a name under    *)
(* app/; otherwise toward .test.ts.                                        *)
(***************************************************************************)
C23_OneMatchingFileMakesBatchUI ==
    GeneratorReturned
        => \A i \in 1..Len(proposals) :
            (endsWithTestTs(proposals[i].filename)
                \/ endsWithTestTsx(proposals[i].filename))
                => (endsWithTestTsx(proposals[i].filename) <=> ClaimedUI)

(***************************************************************************)
(* C26: a missing directory gives an empty result and no error; every      *)
(* other error met while listing, at any depth, leaves getAllTestFiles.    *)
(***************************************************************************)
C26_MissingIsEmptyOtherErrorsPropagate ==
    /\ call.rootAnswer = "notFound"
        => /\ call.step \in {"raise", "items", "returned"}
           /\ Top.results = <<>>
           /\ call.step = "returned"
                => /\ pc = "gatingStep"
                   /\ testContext.existingTestFiles = EmptyBranch
    /\ call.errorDepth > 0
        => /\ call.step \in {"raise", "threw"}
           /\ call.status = "500"
           /\ call.step = "threw"
                => /\ pc = "thrown"
                   /\ thrown = "buildTestContext"
                   /\ testContext = NoTestContext
    /\ call.step = "threw" => call.errorDepth > 0

C26_Witness ==
    /\ call.step = "threw"
    /\ call.errorDepth = 2
    /\ call.missingDepth = 2

C26_WitnessMissingRoot ==
    /\ call.step = "returned"
    /\ call.rootAnswer = "notFound"

(***************************************************************************)
(* Vocabulary of the prompt properties (SpecPrompt).                       *)
(***************************************************************************)
\* the prompt embeds the patch or the content of the file of that name
Carries(prompt, filename) ==
    \E i \in 1..Len(prompt) :
        \/ prompt[i] = Tok("Patch:", 0, filename)
        \/ /\ i < Len(prompt)
           /\ prompt[i] \in {Tok("File:", 0, filename),
                             Tok("Existing test:", 0, filename)}

\* no excluded changed file of the context has its patch or content in the
\* prompt, and each is named in it
ExcludedKeptOut(prompt, changedFiles) ==
    \A i \in 1..Len(changedFiles) :
        changedFiles[i].excluded
            => /\ ~Carries(prompt, changedFiles[i].filename)
               /\ \E k \in 1..Len(prompt) :
                    /\ prompt[k].s = changedFiles[i].filename
                    /\ prompt[k].t \in {"File: [EXCLUDED]",
                                        "File: [EXCLUDED FROM PROMPT]"}

(***************************************************************************)
(* C27: the review prompt, the gate prompt and the generator prompt name   *)
(* an excluded changed file with its marker and never carry its patch or   *)
(* its content.                                                            *)
(***************************************************************************)
C27_ExcludedFilesKeptOutOfPrompts ==
    /\ pc = "handleReviewAgent"
        => ExcludedKeptOut(reviewPrompt(baseContext), baseContext.changedFiles)
    /\ pc = "gatingStep"
        => ExcludedKeptOut(gatePrompt(testContext, reviewAnalysis),
                           testContext.changedFiles)
    /\ pc = "generateTestsForChanges"
        => ExcludedKeptOut(generatorPrompt(testContext, recommendationOf(hReview)),
                           testContext.changedFiles)
(***************************************************************************)
(* C31: the terminal outcome follows the last test run alone: a flow that  *)
(* ends without a thrown error after test runs reports success exactly     *)
(* when the last run passed, the pass after the third fix included, and    *)
(* reports exhausted only when the last run failed and exactly             *)
(* maxIterations fix iterations were made.                                 *)
(***************************************************************************)
LastRun == log[CHOOSE i \in TestRuns : \A j \in TestRuns : j <= i]

ReportedSuccess ==
    outcome = "success"
    /\ Contains(comments.test, Tok("All tests passing", 0, ""))

ReportedExhausted ==
    outcome = "exhausted"
    /\ Contains(comments.test,
                Tok("Tests failing after fix attempts:", maxIterations, ""))

C31_OutcomeFollowsLastRun ==
    /\ (Finished /\ NoError /\ TestsRan)
        => /\ TestRuns # {}
           /\ ReportedSuccess <=> LastRun.ok
           /\ ReportedExhausted <=> ~LastRun.ok
           /\ ReportedExhausted
                => /\ Cardinality(FixCalls) = maxIterations
                   /\ iteration = maxIterations
    /\ outcome \in {"success", "exhausted"} => Finished /\ NoError /\ TestsRan

C31_Witness ==
    /\ Finished /\ NoError
    /\ Verdicts(log) = <<FALSE, FALSE, FALSE, TRUE>>
    /\ Cardinality(FixCalls) = maxIterations
    /\ ReportedSuccess

(***************************************************************************)
(* C32: the phases run one after the other in a fixed order: a commit      *)
(* starts only after the Proposal Generator call of its iteration has      *)
(* returned, a test run starts only after the commit of that iteration has *)
(* returned (or the generator returned nothing to commit), and exactly one *)
(* test run lies between two consecutive Proposal Generator calls.         *)
(***************************************************************************)
GeneratorCalls == Indices("generate")

RunsBetween(i, j) == {k \in TestRuns : i < k /\ k < j}

GenerationDone(e) == e.t = "generate" /\ e.ok

CommitsDone(e, fix) ==
    \/ e.t = "commit" /\ e.ok /\ e.fix = fix
    \/ GenerationDone(e) /\ e.n = 0 /\ e.fix = fix

C32_PhasesInFixedOrder ==
    /\ \A i \in 1..Len(log) :
        /\ log[i].t = "commit"
            => /\ i > 1
               /\ GenerationDone(log[i-1])
               /\ log[i-1].fix = log[i].fix
               /\ log[i-1].n = log[i].n
        /\ log[i].t = "test"
            => i > 1 /\ CommitsDone(log[i-1], log[i].fix)
    /\ LET calls == GeneratorCalls
       IN  \A i \in calls : \A j \in {k \in calls : i < k} :
               (\A k \in calls : ~(i < k /\ k < j))
                   => Cardinality(RunsBetween(i, j)) = 1
    /\ pc = "commitTests"
        => log # <<>> /\ GenerationDone(log[Len(log)]) /\ log[Len(log)].n > 0
    /\ pc = "runLocalTests"
        => log # <<>> /\ CommitsDone(log[Len(log)], caller = "handleTestFix")

C32_Witness ==
    /\ Finished /\ NoError
    /\ Len(log) = 8
    /\ [i \in 1..8 |-> log[i].t]
        = <<"generate", "commit", "test", "generate", "test",
            "generate", "commit", "test">>

(***************************************************************************)
(* C33: when every external call returns or fails, every flow eventually   *)
(* reaches a terminal state (no-op, skip, success, exhausted or hard       *)
(* failure), whatever the test results and the model outputs are.          *)
(***************************************************************************)
TerminalOutcomes ==
    {"noToken", "noop", "skip", "success", "exhausted", "fatal"}

Terminated == Finished /\ outcome \in TerminalOutcomes

C33_EveryFlowTerminates == <>Terminated

C33_Witness ==
    /\ Terminated
    /\ outcome = "exhausted"
    /\ Cardinality(TestRuns) = maxIterations + 1
    /\ \E i \in GeneratorCalls : log[i].n > 0

(***************************************************************************)
(* C34: when the Gate returns shouldGenerate = true, the result that       *)
(* gatingStep returns carries the Gate's recommendation, and that          *)
(* recommendation is part of the recommendation text handed to the first   *)
(* Proposal Generator call.                                                *)
(***************************************************************************)
FirstGeneratorCalled == lastGen.kind = "runFlow"

GateSaidGenerate == gateModel.kind = "object" /\ gateModel.shouldGenerate

InText(text, s) == \E i \in 1..Len(text) : text[i].s = s

C34_GateRecommendationReachesGenerator ==
    /\ (GateSaidGenerate /\ gating # NoGating)
        => /\ "recommendation" \in DOMAIN gating
           /\ gating["recommendation"] = gateModel.recommendation
    /\ (GateSaidGenerate /\ FirstGeneratorCalled)
        => InText(lastGen.recommendation, gateModel.recommendation)

(***************************************************************************)
(* C35: with commitTests as the only writer, a rename proposal whose old   *)
(* path held a file never leaves the branch with neither the old path nor  *)
(* the new path present once commitTests has stopped working on it, also   *)
(* when the write of the new path fails after the old path was deleted.    *)
(***************************************************************************)
StoppedOnRename ==
    /\ commit.step \in {"applied", "threw"}
    /\ isRename(Current)

OldPathHeldFile ==
    commit.afterPrevious[Current.oldFilename] \notin {Absent, Dir}

C35_RenameKeepsOnePath ==
    (SingleWriter /\ StoppedOnRename /\ OldPathHeldFile)
        => \/ branch[Current.oldFilename] # Absent
           \/ branch[Current.filename] # Absent

(***************************************************************************)
(* Vocabulary of the properties of the monolithic scripts.                 *)
(***************************************************************************)
Runs(s) == call.fn = "runFlow" /\ call.script = s

GateSaidNo == GateReturned /\ ~gateModel.shouldGenerate

(***************************************************************************)
(* C36: in the monolithic scripts src/unnamed/part_002 and                 *)
(* src/scripts/ai-flow.ts, once the Gate has returned                      *)
(* shouldGenerate = false (a Gate error included) the rest of the          *)
(* invocation makes no Proposal Generator call and no commit to the PR     *)
(* branch, whatever the following test runs report.                        *)
(***************************************************************************)
C36_GateFalseStopsGenerationInScripts ==
    ((Runs(Part002) \/ Runs(ScriptsAiFlow)) /\ GateSaidNo)
        => /\ GeneratorCalls = {}
           /\ Indices("commit") = {}
           /\ branch \in InitialBranches

(***************************************************************************)
(* C37: in the runFlow of src/unnamed/part_001 a fix attempt is made only  *)
(* directly after a failing test run: a flow whose first test run passes   *)
(* ends with zero fix attempts, and a flow whose test runs all fail ends   *)
(* after fix attempts up to the bound of 3.                                *)
(***************************************************************************)
C37_Part001FixOnlyAfterFailingRun ==
    Runs(Part001)
        => /\ \A i \in FixCalls :
                i > 1 /\ log[i-1].t = "test" /\ ~log[i-1].ok
           /\ Cardinality(FixCalls) <= maxIterations
           /\ (Finished /\ NoError /\ TestRuns # {})
                => /\ Head(Verdicts(log)) => FixCalls = {}
                   /\ (\A i \in TestRuns : ~log[i].ok)
                        => Cardinality(FixCalls) = maxIterations

(***************************************************************************)
(* C38: in src/scripts/github-actions/ai-flow.ts a run that ends with the  *)
(* tests still failing after the 3 fix attempts exits with a non-zero      *)
(* process status.                                                         *)
(***************************************************************************)
C38_ExhaustedExitsNonZero ==
    (Runs(ActionsAiFlow) /\ Finished /\ outcome = "exhausted"
        /\ iteration = maxIterations)
        => exitCode # 0

====
